---- MODULE Spec2Model ----
(***************************************************************************)
(* A model of uds-client-rs: the ISO-TP frame codec (frame.rs), the        *)
(* response slot (response.rs), the UDS client core (client.rs), the       *)
(* service routines (services/*.rs) and the task topology of the binary    *)
(* (uds.rs, main.rs).                                                      *)
(***************************************************************************)
EXTENDS Integers, Sequences, FiniteSets, TLC

VARIABLES
    current,         \* ResponseSlot.0 : the cell holding the latest Response
    permit,          \* ResponseSlot.1 : the permit stored in the Notify
    waiters,         \* ResponseSlot.1 : tasks registered in the Notify, oldest first
    notified,        \* tasks whose Notified future has been handed a notification
    rxpc,            \* position of the receive task inside update_response
    nupd,            \* number of payloads the receive task has stored so far
    lastBytes,       \* the payload the receive task stored last
    changed,         \* the last update replaced a value different from its own
    idleUpd,         \* updates stored, while no wait_for_response was in
                     \* progress, since the last one began (counted up to 2)
    mode,            \* "spawn": uds_client_task of uds.rs; "inline": main.rs
    overflow_checks, \* the build's overflow checks: "on", "off", or "unknown"
                     \* as long as no subtraction has overflowed
    bootDone,        \* the request task has left get_ecu_log and runs its event loop
    loopDead,        \* the request task has panicked
    clientLock,      \* holder of the Mutex<UdsClient>, or NoTask
    pc,              \* position of every task
    op,              \* the operation every task runs
    phase,           \* "req": first response of the request; "loop": receive loop
    elapsed,         \* the sleep of the task's current select! has elapsed
    stash,           \* pending_response of the wait_for_response in progress
    wresp,           \* value returned by the task's last wait_for_response
    via,             \* how that call returned: "wake" or "timeout"
    seen,            \* what that call has read from the cell
    waitStart,       \* nupd when that call began
    quietUpd,        \* idleUpd when that call began
    remain,          \* real_time_data_process: remain
    pre_idx,         \* real_time_data_process: pre_idx
    stream,          \* the First Frame the receive loop works on: its size, the
                     \* length of its payload, and the Consecutive bytes taken since
    cmdret,          \* value returned by send_*_with_response
    result,          \* value returned by the operation, or the panic that ended it
    wire,            \* per task: CAN payloads its operation has transmitted
    codec,           \* a value handed to the frame codec and what the calls
                     \* made on it so far returned
    sock,            \* the CAN socket shared by UdsSocketTx and UdsSocketRx:
                     \* its mutex, the driver calls in progress, the position
                     \* of the receive task in receive_with_timeout
    slot             \* ResponseSlot.0 : the mutex around the cell, who is
                     \* inside it, and what is known of dropped consumers

vars == << current, permit, waiters, notified, rxpc, nupd, lastBytes, changed,
           idleUpd, mode, overflow_checks, bootDone, loopDead, clientLock, pc,
           op, phase, elapsed, stash, wresp, via, seen, waitStart, quietUpd,
           remain, pre_idx, stream, cmdret, result, wire, codec, sock, slot >>

-----------------------------------------------------------------------------
(* Bounds of the model.                                                    *)

\* number of UI events the request task handles
NTasks == 2
\* number of CAN payloads the receive task gets from the ECU
MaxRx == 3
\* longest payload or padding of a frame value handed to the codec
MaxPayload == 8
\* the byte sequences handed to from_vec: every sequence of up to MaxHead
\* bytes over a small alphabet, and each of them continued by a fixed tail,
\* up to MaxLen bytes in all
MaxHead == 4
MaxLen == 8

-----------------------------------------------------------------------------
(* Bytes and bit operations.                                               *)

Byte == 0..255

HighNibble(b) == b \div 16
LowNibble(b) == b % 16

NoDid == -1

\* u16::from_be_bytes([hi, lo])
U16Be(hi, lo) == hi * 256 + lo

\* data.get(from..) with a 0-based start index: the tail, or nothing
SliceFrom(data, from) ==
    IF from <= Len(data) THEN SubSeq(data, from + 1, Len(data)) ELSE << >>

\* the representations UdsCommand::from_repr accepts
UdsCommandRepr ==
    { 16, 17, 20, 25, 34, 35, 36, 39, 40, 41, 42, 44, 46, 47, 49, 52, 53, 54,
      55, 56, 61, 62, 132, 133, 134, 135 }

\* the representations UdsError::from_repr accepts
UdsErrorRepr ==
    { 16, 17, 18, 19, 20, 33, 34, 36, 37, 38, 49, 51, 53, 54, 55, 112, 113,
      114, 115, 120, 126, 127, 129, 130, 131, 132, 133, 134, 135, 136, 137,
      138, 139, 140, 141, 143, 144, 145, 146, 147 }

\* UdsError::RequestCorrectlyReceivedResponsePending
ResponsePending == 120

-----------------------------------------------------------------------------
(* frame.rs : UdsFrame::from_vec                                           *)

DecodeOk(f) == [ok |-> TRUE, frame |-> f]
DecodeErr(e) == [ok |-> FALSE, error |-> e]

\* a decoder without the negative-response branch
FromVecSingleOnly(data) ==
    IF Len(data) < 2 THEN DecodeErr("InvalidSize")
    ELSE DecodeOk([variant |-> "Single", size |-> LowNibble(data[1]),
                   sid |-> data[2], did |-> NoDid,
                   payload |-> SliceFrom(data, 2)])

FromVecSingle(data) ==
    LET size == LowNibble(data[1]) IN
    IF Len(data) < 2 THEN DecodeErr("InvalidSize")
    ELSE IF data[2] = 127 THEN
        IF Len(data) < 3 \/ data[3] \notin UdsCommandRepr
        THEN DecodeErr("InvalidSid")
        ELSE IF Len(data) < 4 \/ data[4] \notin UdsErrorRepr
        THEN DecodeErr("InvalidNrc")
        ELSE DecodeOk([variant |-> "NegativeResp", size |-> size,
                       rsid |-> data[3], nrc |-> data[4]])
    ELSE
        LET did == IF Len(data) > 2
                   THEN U16Be(data[3], IF Len(data) >= 4 THEN data[4] ELSE 0)
                   ELSE NoDid
            payload_start == IF did # NoDid THEN 4 ELSE 2
        IN DecodeOk([variant |-> "Single", size |-> size, sid |-> data[2],
                     did |-> did, payload |-> SliceFrom(data, payload_start)])

FromVecFirst(data) ==
    IF Len(data) < 3 THEN DecodeErr("InvalidSize")
    ELSE
        LET size == LowNibble(data[1]) * 256 + data[2]
            did == IF Len(data) >= 5 THEN U16Be(data[4], data[5]) ELSE NoDid
            payload_start == IF did # NoDid THEN 5 ELSE 3
        IN DecodeOk([variant |-> "First", size |-> size, sid |-> data[3],
                     did |-> did, payload |-> SliceFrom(data, payload_start)])

FromVecConsecutive(data) ==
    DecodeOk([variant |-> "Consecutive", seq_num |-> LowNibble(data[1]),
              payload |-> SliceFrom(data, 1)])

FromVecFlowControl(data) ==
    IF Len(data) < 3 THEN DecodeErr("InvalidSize")
    ELSE DecodeOk([variant |-> "FlowControl", flag |-> LowNibble(data[1]),
                   block_size |-> data[2], separation_time |-> data[3],
                   padding |-> SliceFrom(data, 3)])

FromVec(data) ==
    IF Len(data) = 0 THEN DecodeErr("InvalidCanLength")
    ELSE CASE HighNibble(data[1]) = 0 -> FromVecSingle(data)
           [] HighNibble(data[1]) = 1 -> FromVecFirst(data)
           [] HighNibble(data[1]) = 2 -> FromVecConsecutive(data)
           [] HighNibble(data[1]) = 3 -> FromVecFlowControl(data)
           [] OTHER -> DecodeErr("InvalidFrameType")

-----------------------------------------------------------------------------
(* frame.rs : to_vec                                                       *)

DidBytes(did) == IF did = NoDid THEN << >> ELSE << did \div 256, did % 256 >>

SingleToVec(f) ==
    IF Len(f.payload) > 7 THEN DecodeErr("InvalidSize")
    ELSE [ok |-> TRUE,
          bytes |-> << LowNibble(f.size), f.sid >> \o DidBytes(f.did) \o f.payload]

\* the first byte without the mask on the size's high bits
FirstToVecUnmasked(f) ==
    IF Len(f.payload) > 6 THEN DecodeErr("InvalidSize")
    ELSE [ok |-> TRUE,
          bytes |-> << 16 + (f.size \div 256), f.size % 256, f.sid >>
                    \o DidBytes(f.did) \o f.payload]

FirstToVec(f) ==
    IF Len(f.payload) > 6 THEN DecodeErr("InvalidSize")
    ELSE [ok |-> TRUE,
          bytes |-> << 16 + LowNibble(f.size \div 256), f.size % 256, f.sid >>
                    \o DidBytes(f.did) \o f.payload]

ConsecutiveToVec(f) ==
    IF Len(f.payload) > 7 THEN DecodeErr("InvalidSize")
    ELSE [ok |-> TRUE, bytes |-> << 32 + LowNibble(f.seq_num) >> \o f.payload]

FlowControlToVec(f) ==
    [ok |-> TRUE,
     bytes |-> << 48 + LowNibble(f.flag), f.block_size, f.separation_time >>
               \o f.padding]

NegativeRespToVec(f) ==
    [ok |-> TRUE, bytes |-> << LowNibble(f.size), 127, f.rsid, f.nrc >>]

ToVec(f) ==
    CASE f.variant = "Single" -> SingleToVec(f)
      [] f.variant = "First" -> FirstToVec(f)
      [] f.variant = "Consecutive" -> ConsecutiveToVec(f)
      [] f.variant = "FlowControl" -> FlowControlToVec(f)
      [] f.variant = "NegativeResp" -> NegativeRespToVec(f)

-----------------------------------------------------------------------------
(* frame.rs : the constructors                                             *)

\* UdsSingleFrame::new(sid, did, payload); size is (len + 3 or + 1) as u8
SingleNew(sid, did, payload) ==
    IF Len(payload) > 7 THEN DecodeErr("InvalidCanLength")
    ELSE DecodeOk([variant |-> "Single",
                   size |-> (Len(payload) + IF did # NoDid THEN 3 ELSE 1) % 256,
                   sid |-> sid, did |-> did, payload |-> payload])

\* UdsFirstFrame::new(sid, size, did, payload)
FirstNew(sid, size, did, payload) ==
    IF Len(payload) > 6 THEN DecodeErr("InvalidCanLength")
    ELSE DecodeOk([variant |-> "First", size |-> size, sid |-> sid,
                   did |-> did, payload |-> payload])

\* UdsConsecutiveFrame::new(seq_num, payload)
ConsecutiveNew(seq_num, payload) ==
    IF Len(payload) > 7 THEN DecodeErr("InvalidCanLength")
    ELSE DecodeOk([variant |-> "Consecutive", seq_num |-> seq_num,
                   payload |-> payload])

\* UdsFlowControlFrame::new(flag, block_size, separation_time, padding)
FlowControlNew(flag, block_size, separation_time, padding) ==
    IF Len(padding) > 5 THEN DecodeErr("InvalidCanLength")
    ELSE DecodeOk([variant |-> "FlowControl", flag |-> flag,
                   block_size |-> block_size,
                   separation_time |-> separation_time, padding |-> padding])

\* UdsNegativeResponse::new(rsid, nrc, size)
NegativeRespNew(rsid, nrc, size) ==
    DecodeOk([variant |-> "NegativeResp", size |-> size, rsid |-> rsid,
              nrc |-> nrc])

\* the constructor named by a.ctor applied to the arguments in a
New(a) ==
    CASE a.ctor = "Single" -> SingleNew(a.sid, a.did, a.payload)
      [] a.ctor = "First" -> FirstNew(a.sid, a.size, a.did, a.payload)
      [] a.ctor = "Consecutive" -> ConsecutiveNew(a.seq_num, a.payload)
      [] a.ctor = "FlowControl" ->
            FlowControlNew(a.flag, a.block_size, a.separation_time, a.padding)
      [] a.ctor = "NegativeResp" -> NegativeRespNew(a.rsid, a.nrc, a.size)

-----------------------------------------------------------------------------
(* pci.rs : From<PciByte> for u8                                           *)

PciToByte(pci_type, value) ==
    CASE pci_type = "SingleFrame" -> LowNibble(value)
      [] pci_type = "FirstFrame" -> 16 + LowNibble(value)
      [] pci_type = "ConsecutiveFrame" -> 32 + LowNibble(value)
      [] pci_type = "FlowControl" -> 48 + LowNibble(value)

-----------------------------------------------------------------------------
(* response.rs : Response, and mod.rs : DiagError                          *)

NoResp == [tag |-> "None"]
RespOk(f) == [tag |-> "Ok", frame |-> f]
RespError(e) == [tag |-> "Error", err |-> e]
OkUnit == [tag |-> "OkUnit"]
Panic(why) == [tag |-> "Panic", why |-> why]

IsErr(r) == r.tag = "Error"
IsPanic(r) == r.tag = "Panic"

NotSupported == [kind |-> "NotSupported"]
Timeout == [kind |-> "Timeout"]
WrongMessage == [kind |-> "WrongMessage"]
InvalidResponseLength == [kind |-> "InvalidResponseLength"]
ChannelError == [kind |-> "ChannelError"]
ECUError(code, rsid) == [kind |-> "ECUError", code |-> code, rsid |-> rsid]
FrameError(e) == [kind |-> "FrameError", error |-> e]

\* a guard that takes a stored negative response 0x78 for a pending response
IsPendingStored(r) ==
    /\ r.tag = "Ok"
    /\ r.frame.variant = "NegativeResp"
    /\ r.frame.nrc = ResponsePending

\* the guard of the first match arm of wait_for_response
IsPendingResponse(r) ==
    /\ r.tag = "Error"
    /\ r.err.kind = "ECUError"
    /\ r.err.code = ResponsePending

\* a decode failure is not stored as such
DecodeResponseDropError(new_data) ==
    LET d == FromVec(new_data) IN
    IF d.ok THEN RespOk(d.frame) ELSE RespError(NotSupported)

\* update_response: the Response made from the received bytes
DecodeResponse(new_data) ==
    LET d == FromVec(new_data) IN
    IF d.ok THEN RespOk(d.frame) ELSE RespError(FrameError(d.error))

-----------------------------------------------------------------------------
(* Tasks, operations and what the ECU may send.                            *)

NoTask == -1
BootTask == 0
EventTasks == 1..NTasks
Tasks == {BootTask} \cup EventTasks

\* the codes of the UI events the model dispatches: periodic read slow,
\* reset of the realtime chip
UiCodes == { 1, 64 }

LogOp == [svc |-> "log", arg |-> 0]
NoOp == [svc |-> "none", arg |-> 0]

\* ui.rs : UiEventTx::try_from, as the service the request task runs for it
EventOp(code) ==
    IF code \in 1..3 THEN [svc |-> "rt_start", arg |-> code]
    ELSE IF code = 4 THEN [svc |-> "rt_stop", arg |-> code]
    ELSE [svc |-> "reset", arg |-> IF code = 70 THEN 69 ELSE code]

\* frames handed to send_frame_with_response: an ECU reset request, and a
\* Single frame whose payload is too long to encode
TestFrames ==
    << [variant |-> "Single", size |-> 2, sid |-> 17, did |-> NoDid,
        payload |-> << 64 >>],
       [variant |-> "Single", size |-> 9, sid |-> 54, did |-> NoDid,
        payload |-> << 1, 2, 3, 4, 5, 6, 7, 8 >>] >>

\* the operations a user of the library calls on the client
ApiOps ==
    { [svc |-> "reset", arg |-> 64], [svc |-> "rt_stop", arg |-> 4] }
        \cup { [svc |-> "frame_resp", arg |-> i] : i \in 1..Len(TestFrames) }

\* ResetType as u8
ResetTypeCode(reset_type) ==
    CASE reset_type = "RealTime" -> 64
      [] reset_type = "Telematic" -> 65
      [] reset_type = "Imx" -> 66
      [] reset_type = "Esp32Wifi" -> 67
      [] reset_type = "Esp32Ble" -> 68
      [] reset_type = "Lte" -> 69
      [] reset_type = "Lizard" -> 70
      [] reset_type = "Cendric" -> 71

\* the service routines of UdsClient: the reset routines with the ResetType
\* each passes, the periodic-read routines with the rate byte each passes
ServiceRoutines ==
    << [name |-> "uds_reset_118", svc |-> "reset",
        arg |-> ResetTypeCode("RealTime")],
       [name |-> "uds_reset_148", svc |-> "reset",
        arg |-> ResetTypeCode("Telematic")],
       [name |-> "uds_reset_imx", svc |-> "reset",
        arg |-> ResetTypeCode("Imx")],
       [name |-> "uds_reset_esp32_wifi", svc |-> "reset",
        arg |-> ResetTypeCode("Esp32Wifi")],
       [name |-> "uds_reset_esp32_ble", svc |-> "reset",
        arg |-> ResetTypeCode("Esp32Ble")],
       [name |-> "uds_reset_lte", svc |-> "reset",
        arg |-> ResetTypeCode("Lte")],
       [name |-> "uds_reset_lizard", svc |-> "reset",
        arg |-> ResetTypeCode("Lizard")],
       [name |-> "uds_reset_cendric", svc |-> "reset",
        arg |-> ResetTypeCode("Cendric")],
       [name |-> "uds_real_time_data_slow", svc |-> "rt_start", arg |-> 1],
       [name |-> "uds_real_time_data_medium", svc |-> "rt_start", arg |-> 2],
       [name |-> "uds_real_time_data_fast", svc |-> "rt_start", arg |-> 3],
       [name |-> "uds_real_time_data_stop", svc |-> "rt_stop", arg |-> 4] >>

ServiceOps == { ServiceRoutines[i] : i \in 1..Len(ServiceRoutines) }

\* arguments handed to send_command: the pci byte (a u8, or a PciByte
\* through From<PciByte> for u8), the command, the args
TestCommands ==
    << [pci |-> 2, sid |-> 17, args |-> << 64 >>],
       [pci |-> 1, sid |-> 54, args |-> << >>],
       [pci |-> PciToByte("SingleFrame", 3), sid |-> 42, args |-> << 1, 176 >>],
       [pci |-> PciToByte("FlowControl", 0), sid |-> 0, args |-> << 0 >>],
       [pci |-> PciToByte("SingleFrame", 7), sid |-> 46,
        args |-> << 241, 144, 1, 2, 3, 4 >>],
       [pci |-> 255, sid |-> 255, args |-> << 0, 255 >>] >>

\* the operations that send without waiting for a response
SendOps ==
    { [svc |-> "command", arg |-> i] : i \in 1..Len(TestCommands) }
        \cup { [svc |-> "frame", arg |-> TestFrames[i]] : i \in 1..Len(TestFrames) }

\* send_command without the args
SendCommandBytesNoArgs(pci, cmd, args) == << pci, cmd >>

\* send_command, send_command_with_response:
\* let mut data = vec![pci.into(), cmd.into()]; data.extend_from_slice(args)
SendCommandBytes(pci, cmd, args) == << pci, cmd >> \o args

\* the request with the command and the sub-function exchanged
RequestBytesSubFirst(o) ==
    CASE o.svc \in {"reset", "rt_start", "rt_stop"} ->
            [ok |-> TRUE,
             bytes |-> << PciToByte("SingleFrame", 2), o.arg,
                          IF o.svc = "reset" THEN 17 ELSE 42 >>]
      [] OTHER -> [ok |-> TRUE, bytes |-> << PciToByte("SingleFrame", 1), 54 >>]

\* the bytes of the request: send_command_with_response builds
\* [pci, cmd, ..args]; send_frame_with_response encodes the frame and fails
\* when to_vec fails
RequestBytes(o) ==
    CASE o.svc = "log" ->
            [ok |-> TRUE, bytes |-> << PciToByte("SingleFrame", 1), 54 >>]
      [] o.svc = "reset" ->
            [ok |-> TRUE, bytes |-> << PciToByte("SingleFrame", 2), 17, o.arg >>]
      [] o.svc = "rt_start" ->
            [ok |-> TRUE,
             bytes |-> << PciToByte("SingleFrame", 3), 42, o.arg, 176 >>]
      [] o.svc = "rt_stop" ->
            [ok |-> TRUE, bytes |-> << PciToByte("SingleFrame", 3), 42, 4, 176 >>]
      [] o.svc = "frame_resp" -> ToVec(TestFrames[o.arg])
      [] o.svc = "frame" -> ToVec(o.arg)
      [] o.svc = "command" ->
            [ok |-> TRUE,
             bytes |-> SendCommandBytes(TestCommands[o.arg].pci,
                                        TestCommands[o.arg].sid,
                                        TestCommands[o.arg].args)]

\* real_time_data_process: the Flow Control frame handed to send_command
FlowControlBytes == << PciToByte("FlowControl", 0), 0, 0 >>

PendingBytes == << 3, 127, 42, 120 >>
NegativeBytes == << 3, 127, 17, 34 >>
SingleBytes == << 4, 106, 1, 176, 153 >>
FirstBytes == << 16, 10, 106, 1, 176, 170, 187, 204 >>
Consecutive1Bytes == << 33, 1, 2, 3, 4, 5, 6, 7 >>
BadBytes == << 64 >>

\* the payloads the ECU sends
EcuPayloads ==
    { PendingBytes, NegativeBytes, SingleBytes, FirstBytes, Consecutive1Bytes,
      BadBytes }

-----------------------------------------------------------------------------
(* Initial state: main() has built the slot, the client and both tasks;    *)
(* the request task is about to call get_ecu_log.                          *)

InitSlot ==
    /\ current = RespError(NotSupported)
    /\ permit = FALSE
    /\ waiters = << >>
    /\ notified = {}
    /\ rxpc = "poll"
    /\ nupd = 0
    /\ lastBytes = << >>
    /\ changed = FALSE
    /\ idleUpd = 0

NoStream == [size |-> 0, len |-> 0, got |-> 0]

\* no codec call is followed
CodecIdle == [stage |-> "idle"]

\* the receive task, as a holder of the socket mutex
RxTask == NTasks + 1

\* the socket after split(): the mutex is free, no driver call is running,
\* the receive task is about to call receive_with_timeout
SockIdle ==
    [os |-> "linux", lock |-> NoTask, calls |-> {}, rx |-> "idle",
     frame |-> << >>, at |-> 0]

\* the slot's mutex after ResponseSlot::new: free, nobody inside, no
\* consumer has been dropped
SlotIdle ==
    [lock |-> NoTask, calls |-> {}, drops |-> 0, dropUpd |-> 0,
     next |-> NoTask]

InitCalls ==
    /\ op = [t \in Tasks |-> IF pc[t] = "lock" THEN LogOp ELSE NoOp]
    /\ phase = [t \in Tasks |-> "req"]
    /\ elapsed = [t \in Tasks |-> FALSE]
    /\ stash = [t \in Tasks |-> NoResp]
    /\ wresp = [t \in Tasks |-> NoResp]
    /\ via = [t \in Tasks |-> "none"]
    /\ seen = [t \in Tasks |-> "none"]
    /\ waitStart = [t \in Tasks |-> 0]
    /\ quietUpd = [t \in Tasks |-> 0]
    /\ remain = [t \in Tasks |-> 0]
    /\ pre_idx = [t \in Tasks |-> 0]
    /\ stream = [t \in Tasks |-> NoStream]
    /\ cmdret = [t \in Tasks |-> NoResp]
    /\ result = [t \in Tasks |-> NoResp]
    /\ wire = [t \in Tasks |-> << >>]

Init ==
    /\ InitSlot
    /\ mode \in {"spawn", "inline"}
    /\ overflow_checks = "unknown"
    /\ bootDone = FALSE
    /\ loopDead = FALSE
    /\ clientLock = NoTask
    /\ pc = [t \in Tasks |-> IF t = BootTask THEN "lock" ELSE "idle"]
    /\ InitCalls
    /\ codec = CodecIdle
    /\ sock = SockIdle
    /\ slot = SlotIdle

slotVars == << current, permit, waiters, notified, rxpc, nupd, lastBytes,
              changed >>
buildVars == << mode, overflow_checks, codec, sock, slot >>
loopVars == << bootDone, loopDead, clientLock >>
waitVars == << elapsed, stash, wresp, via, waitStart, quietUpd >>
rtVars == << remain, pre_idx, stream >>
callVars == << cmdret, result, wire >>

-----------------------------------------------------------------------------
(* response.rs : update_response, run by the receive task of main.rs       *)

\* Notify::notify_one: hand the notification to the oldest registered
\* waiter, or store the permit
NotifyOne ==
    IF waiters # << >>
    THEN /\ notified' = notified \cup {Head(waiters)}
         /\ waiters' = Tail(waiters)
         /\ UNCHANGED permit
    ELSE /\ permit' = TRUE
         /\ UNCHANGED << waiters, notified >>

InWait(t) == pc[t] \in {"wait", "select", "read"}

\* whether r carries the negative response code 0x78
IsPendingValue(r) ==
    \/ IsPendingResponse(r)
    \/ r.tag = "Ok" /\ r.frame.variant = "NegativeResp"
                    /\ r.frame.nrc = ResponsePending

\* what a call has read from the cell once it reads r: "none", "pending"
\* (0x78 values only) or "other"
SeenAfter(s, r) ==
    IF IsPendingValue(r) /\ s \in {"none", "pending"} THEN "pending" ELSE "other"

\* a cell that is written once: a later value does not replace the stored one
ReplaceFirstOnly(old, resp) == IF old = RespError(NotSupported) THEN resp ELSE old

\* RefCell::replace on the cell: the new value takes the place of the old
Replace(old, resp) == resp

\* receive_with_timeout returned a frame; update_response decodes it and
\* replaces the cell under the slot's lock
UpdateReplace(new_data) ==
    /\ rxpc = "poll"
    /\ current' = Replace(current, DecodeResponse(new_data))
    /\ lastBytes' = new_data
    /\ changed' = (DecodeResponse(new_data) # current)
    /\ nupd' = nupd + 1
    /\ idleUpd' = IF \E t \in Tasks : InWait(t) THEN idleUpd
                  ELSE IF idleUpd < 2 THEN idleUpd + 1 ELSE 2
    /\ rxpc' = "notify"
    /\ UNCHANGED << permit, waiters, notified, buildVars, loopVars, pc, op,
                    phase, waitVars, seen, rtVars, callVars >>

\* update_response: self.1.notify_one()
UpdateNotify ==
    /\ rxpc = "notify"
    /\ NotifyOne
    /\ rxpc' = "poll"
    /\ UNCHANGED << current, nupd, lastBytes, changed, idleUpd, buildVars,
                    loopVars, pc, op, phase, waitVars, seen, rtVars, callVars >>

\* the receive task of main.rs gets one more payload from the ECU
Receive ==
    /\ nupd < MaxRx
    /\ \E b \in EcuPayloads : UpdateReplace(b)

-----------------------------------------------------------------------------
(* uds.rs, main.rs : the request task and the tasks it spawns              *)

\* a client that is not behind a mutex
LockNever == TRUE

\* tokio Mutex<UdsClient>::lock can complete
LockFree == clientLock = NoTask

\* the operation of task t returns r or panics (r = Panic(..))
Leave(t, r) ==
    /\ pc' = [pc EXCEPT ![t] = "ret"]
    /\ result' = [result EXCEPT ![t] = r]

\* The caller takes the result.  uds.rs and main.rs unwrap the result of an
\* event's service, so an Err panics the task; get_ecu_log's Err is only
\* logged.  The guard of the client mutex and the locals of the call are
\* dropped.  In main.rs the event is handled by the request task itself, so
\* a panic ends the request task; a panic in get_ecu_log ends it in both.
Finish(t) ==
    /\ pc[t] = "ret"
    /\ LET r == result[t]
           dies == IsPanic(r) \/ (IsErr(r) /\ t # BootTask /\ mode # "api")
       IN /\ pc' = [pc EXCEPT ![t] = IF dies THEN "panic" ELSE "done"]
          /\ bootDone' = (bootDone \/ (t = BootTask /\ ~dies))
          /\ loopDead' = (loopDead \/ (dies /\ (t = BootTask \/ mode # "spawn")))
    /\ clientLock' = NoTask
    /\ op' = [op EXCEPT ![t] = NoOp]
    /\ phase' = [phase EXCEPT ![t] = "req"]
    /\ elapsed' = [elapsed EXCEPT ![t] = FALSE]
    /\ stash' = [stash EXCEPT ![t] = NoResp]
    /\ wresp' = [wresp EXCEPT ![t] = NoResp]
    /\ via' = [via EXCEPT ![t] = "none"]
    /\ seen' = [seen EXCEPT ![t] = "none"]
    /\ waitStart' = [waitStart EXCEPT ![t] = 0]
    /\ quietUpd' = [quietUpd EXCEPT ![t] = 0]
    /\ remain' = [remain EXCEPT ![t] = 0]
    /\ pre_idx' = [pre_idx EXCEPT ![t] = 0]
    /\ stream' = [stream EXCEPT ![t] = NoStream]
    /\ cmdret' = [cmdret EXCEPT ![t] = NoResp]
    /\ result' = [result EXCEPT ![t] = NoResp]
    /\ wire' = [wire EXCEPT ![t] = << >>]
    /\ UNCHANGED << slotVars, idleUpd, buildVars >>

\* task t starts on operation o
Start(t, o) ==
    /\ t \in EventTasks
    /\ bootDone /\ ~loopDead
    /\ pc[t] = "idle"
    /\ \A u \in EventTasks : u < t => pc[u] # "idle"
    /\ mode # "spawn" => \A u \in Tasks \ {t} : pc[u] \in {"idle", "done"}
    /\ pc' = [pc EXCEPT ![t] = "lock"]
    /\ op' = [op EXCEPT ![t] = o]
    /\ UNCHANGED << slotVars, idleUpd, buildVars, loopVars, phase, waitVars,
                    seen, rtVars, callVars >>

\* while let Some(event) = uds_rx.recv().await: the next UI event is taken;
\* uds.rs spawns a task for it, main.rs handles it before taking another
Dispatch(t, code) == Start(t, EventOp(code))

\* uds_client.lock().await
Lock(t) ==
    /\ pc[t] = "lock"
    /\ LockFree
    /\ clientLock' = t
    /\ pc' = [pc EXCEPT ![t] = "send"]
    /\ UNCHANGED << slotVars, idleUpd, buildVars, bootDone, loopDead, op,
                    phase, waitVars, seen, rtVars, callVars >>

-----------------------------------------------------------------------------
(* client.rs : send_raw_with_response, and response.rs : wait_for_response *)

\* wait_for_response is entered: let mut pending_response = None
BeginWait(t) ==
    /\ stash' = [stash EXCEPT ![t] = NoResp]
    /\ waitStart' = [waitStart EXCEPT ![t] = nupd]
    /\ quietUpd' = [quietUpd EXCEPT ![t] = idleUpd]
    /\ idleUpd' = 0
    /\ seen' = [seen EXCEPT ![t] = "none"]
    /\ UNCHANGED << elapsed, wresp, via >>

\* send_command_with_response builds the bytes (send_frame_with_response
\* encodes the frame, Err(WrongMessage) if it cannot); send_raw_with_response
\* transmits them (unwrap: a transmit error panics) and calls
\* wait_for_response.  send_command and send_frame build the bytes the same
\* way; send_raw transmits them (unwrap) and returns Ok(())
SendRequest(t) ==
    /\ pc[t] = "send"
    /\ LET req == RequestBytes(op[t]) IN
       \E sent \in BOOLEAN :
        IF ~req.ok
        THEN /\ cmdret' = [cmdret EXCEPT ![t] = RespError(WrongMessage)]
             /\ Leave(t, RespError(WrongMessage))
             /\ UNCHANGED << idleUpd, phase, waitVars, seen, wire >>
        ELSE IF sent /\ op[t].svc \in {"command", "frame"}
        THEN /\ wire' = [wire EXCEPT ![t] = Append(@, req.bytes)]
             /\ Leave(t, OkUnit)
             /\ UNCHANGED << idleUpd, phase, waitVars, seen, cmdret >>
        ELSE IF sent
        THEN /\ wire' = [wire EXCEPT ![t] = Append(@, req.bytes)]
             /\ pc' = [pc EXCEPT ![t] = "wait"]
             /\ phase' = [phase EXCEPT ![t] = "req"]
             /\ BeginWait(t)
             /\ UNCHANGED << cmdret, result >>
        ELSE /\ Leave(t, Panic("transmit"))
             /\ UNCHANGED << idleUpd, phase, waitVars, seen, cmdret, wire >>
    /\ UNCHANGED << slotVars, buildVars, loopVars, op, rtVars >>

\* top of the loop: select! polls a new notified() and a new sleep(timeout);
\* a stored permit completes notified() at once, otherwise the task is
\* registered with the Notify and suspends
WaitPoll(t) ==
    /\ pc[t] = "wait"
    /\ elapsed' = [elapsed EXCEPT ![t] = FALSE]
    /\ IF permit
       THEN /\ permit' = FALSE
            /\ pc' = [pc EXCEPT ![t] = "read"]
            /\ UNCHANGED waiters
       ELSE /\ waiters' = Append(waiters, t)
            /\ pc' = [pc EXCEPT ![t] = "select"]
            /\ UNCHANGED permit
    /\ UNCHANGED << current, notified, rxpc, nupd, lastBytes, changed,
                    idleUpd, buildVars, loopVars, op, phase, stash, wresp, via,
                    seen, waitStart, quietUpd, rtVars, callVars >>

\* the timeout of the slot passes while the task is suspended in select!
TimerElapse(t) ==
    /\ pc[t] = "select"
    /\ ~elapsed[t]
    /\ elapsed' = [elapsed EXCEPT ![t] = TRUE]
    /\ UNCHANGED << slotVars, idleUpd, buildVars, loopVars, pc, op, phase,
                    stash, wresp, via, seen, waitStart, quietUpd, rtVars,
                    callVars >>

\* select! takes the notified() branch
SelectWake(t) ==
    /\ pc[t] = "select"
    /\ t \in notified
    /\ notified' = notified \ {t}
    /\ pc' = [pc EXCEPT ![t] = "read"]
    /\ UNCHANGED << current, permit, waiters, rxpc, nupd, lastBytes, changed,
                    idleUpd, buildVars, loopVars, op, phase, waitVars, seen,
                    rtVars, callVars >>

Remove(q, t) == SelectSeq(q, LAMBDA u : u # t)

\* a sleep branch that reports the initial value of the slot
TimeoutValueInitial(pending_response) ==
    IF pending_response # NoResp THEN pending_response
    ELSE RespError(NotSupported)

\* the value the sleep branch returns
TimeoutValue(pending_response) ==
    IF pending_response # NoResp THEN pending_response ELSE RespError(Timeout)

\* select! takes the sleep branch; the Notified future is dropped: a
\* notification it had been handed goes to the next waiter or back into the
\* permit, otherwise the task leaves the waiter list
SelectTimeout(t) ==
    /\ pc[t] = "select"
    /\ elapsed[t]
    /\ IF t \in notified
       THEN IF waiters # << >>
            THEN /\ notified' = (notified \ {t}) \cup {Head(waiters)}
                 /\ waiters' = Tail(waiters)
                 /\ UNCHANGED permit
            ELSE /\ notified' = notified \ {t}
                 /\ permit' = TRUE
                 /\ UNCHANGED waiters
       ELSE /\ waiters' = Remove(waiters, t)
            /\ UNCHANGED << notified, permit >>
    /\ wresp' = [wresp EXCEPT ![t] = TimeoutValue(stash[t])]
    /\ via' = [via EXCEPT ![t] = "timeout"]
    /\ pc' = [pc EXCEPT ![t] = "back"]
    /\ UNCHANGED << current, rxpc, nupd, lastBytes, changed, idleUpd,
                    buildVars, loopVars, op, phase, elapsed, stash, seen,
                    waitStart, quietUpd, rtVars, callVars >>

\* the notified() branch: lock the cell and match on its value
WaitRead(t) ==
    /\ pc[t] = "read"
    /\ IF IsPendingResponse(current)
       THEN /\ stash' = [stash EXCEPT ![t] = current]
            /\ pc' = [pc EXCEPT ![t] = "wait"]
            /\ UNCHANGED << wresp, via >>
       ELSE /\ wresp' = [wresp EXCEPT ![t] = current]
            /\ via' = [via EXCEPT ![t] = "wake"]
            /\ pc' = [pc EXCEPT ![t] = "back"]
            /\ UNCHANGED stash
    /\ seen' = [seen EXCEPT ![t] = SeenAfter(@, current)]
    /\ UNCHANGED << slotVars, idleUpd, buildVars, loopVars, op, phase, elapsed,
                    waitStart, quietUpd, rtVars, callVars >>

-----------------------------------------------------------------------------
(* client.rs : send_command_with_response, and the service routines of     *)
(* services/ecu_reset.rs, services/realtime.rs, services/logging.rs        *)

\* a conversion that reports every Response::Error as a timeout
SendCommandResultTimeout(response) ==
    IF response.tag = "Ok" THEN RespOk(response.frame)
    ELSE RespError(Timeout)

\* send_command_with_response, send_frame_with_response:
\* Response::Ok(items) => Ok(items), Response::Error(e) => Err(e)
SendCommandResult(response) ==
    IF response.tag = "Ok" THEN RespOk(response.frame)
    ELSE RespError(response.err)

\* a periodic read that takes any frame as the start of a stream's answer
ServiceStepLenient(o, re) ==
    CASE o.svc = "frame_resp" -> [next |-> "return", value |-> re]
      [] o.svc # "frame_resp" /\ IsErr(re) -> [next |-> "return", value |-> re]
      [] ~IsErr(re) /\ o.svc = "log" ->
            [next |-> "return", value |-> Panic("todo")]
      [] ~IsErr(re) /\ o.svc \in {"reset", "rt_stop"} ->
            [next |-> "return", value |-> OkUnit]
      [] ~IsErr(re) /\ o.svc = "rt_start" ->
            IF re.frame.variant = "First"
            THEN [next |-> "fc", value |-> NoResp]
            ELSE [next |-> "return", value |-> OkUnit]

\* what the caller does with the value re of send_*_with_response(..).await
\*   get_ecu_log: `?`, then todo!()
\*   uds_reset_*, uds_real_time_data_stop: `?`, then Ok(())
\*   uds_real_time_data_*: `?`, then real_time_data_process(re)
\*   a library user calling send_frame_with_response takes re itself
ServiceStep(o, re) ==
    CASE o.svc = "frame_resp" -> [next |-> "return", value |-> re]
      [] o.svc # "frame_resp" /\ IsErr(re) -> [next |-> "return", value |-> re]
      [] ~IsErr(re) /\ o.svc = "log" ->
            [next |-> "return", value |-> Panic("todo")]
      [] ~IsErr(re) /\ o.svc \in {"reset", "rt_stop"} ->
            [next |-> "return", value |-> OkUnit]
      [] ~IsErr(re) /\ o.svc = "rt_start" ->
            IF re.frame.variant = "First"
            THEN [next |-> "fc", value |-> NoResp]
            ELSE [next |-> "return", value |-> RespError(WrongMessage)]

\* wait_for_response has returned the answer to the request
HandleResponse(t) ==
    /\ pc[t] = "back"
    /\ phase[t] = "req"
    /\ LET re == SendCommandResult(wresp[t])
           step == ServiceStep(op[t], re)
       IN /\ cmdret' = [cmdret EXCEPT ![t] = re]
          /\ IF step.next = "fc"
             THEN /\ pc' = [pc EXCEPT ![t] = "fc"]
                  /\ UNCHANGED result
             ELSE Leave(t, step.value)
    /\ UNCHANGED << slotVars, idleUpd, buildVars, loopVars, op, phase,
                    waitVars, seen, rtVars, wire >>

\* usize subtraction: a negative value v stands for the wrapped 2^64 + v, so
\* only a value in 0..b-1 underflows
Underflows(a, b) == a >= 0 /\ a < b

\* The build's overflow checks become known with the first subtraction that
\* overflows: on (debug profile, the subtraction panics) or off (release
\* profile, it wraps)
Observe(under, oc) ==
    /\ overflow_checks \in {"unknown", oc}
    /\ overflow_checks' = IF under THEN oc ELSE overflow_checks

\* if pre_idx == 15 { 0 } else { pre_idx + 1 }
NextIdx(p) == IF p = 15 THEN 0 ELSE p + 1

\* real_time_data_process on a First Frame: send the Flow Control frame
\* (unwrap in send_raw: a transmit error panics), then
\* remain = size as usize - data.len(), pre_idx = 0, and receive()
FlowControl(t) ==
    /\ pc[t] = "fc"
    /\ LET first == wresp[t].frame
           under == Underflows(first.size, Len(first.payload))
       IN \E sent \in BOOLEAN, oc \in {"on", "off"} :
            /\ Observe(sent /\ under, oc)
            /\ IF ~sent
               THEN /\ Leave(t, Panic("transmit"))
                    /\ UNCHANGED << idleUpd, phase, waitVars, seen, rtVars,
                                    wire >>
               ELSE /\ wire' = [wire EXCEPT ![t] = Append(@, FlowControlBytes)]
                    /\ IF under /\ oc = "on"
                       THEN /\ Leave(t, Panic("overflow"))
                            /\ UNCHANGED << idleUpd, phase, waitVars, seen,
                                            rtVars >>
                       ELSE /\ remain' = [remain EXCEPT
                                       ![t] = first.size - Len(first.payload)]
                            /\ pre_idx' = [pre_idx EXCEPT ![t] = 0]
                            /\ stream' = [stream EXCEPT ![t] =
                                            [size |-> first.size,
                                             len |-> Len(first.payload),
                                             got |-> 0]]
                            /\ phase' = [phase EXCEPT ![t] = "loop"]
                            /\ pc' = [pc EXCEPT ![t] = "wait"]
                            /\ BeginWait(t)
                            /\ UNCHANGED result
    /\ UNCHANGED << slotVars, mode, codec, sock, slot, loopVars, op,
                    cmdret >>

\* the value real_time_data_process returns after the loop
ProcessResult(rem) ==
    IF rem = 0 THEN OkUnit ELSE RespError(InvalidResponseLength)

\* one turn of the loop of real_time_data_process on the value of receive()
LoopResponse(t) ==
    /\ pc[t] = "back"
    /\ phase[t] = "loop"
    /\ LET r == wresp[t] IN
        CASE r.tag = "Ok" /\ r.frame.variant = "Consecutive" ->
                LET n == Len(r.frame.payload)
                    under == Underflows(remain[t], n)
                IN \E oc \in {"on", "off"} :
                    /\ Observe(under, oc)
                    /\ IF under /\ oc = "on"
                       THEN /\ Leave(t, Panic("overflow"))
                            /\ UNCHANGED << idleUpd, waitVars, seen, rtVars >>
                       ELSE /\ remain' = [remain EXCEPT ![t] = @ - n]
                            /\ stream' = [stream EXCEPT ![t].got = @ + n]
                            /\ IF r.frame.seq_num # NextIdx(pre_idx[t])
                               THEN /\ Leave(t, RespError(InvalidResponseLength))
                                    /\ UNCHANGED << idleUpd, waitVars, seen,
                                                    pre_idx >>
                               ELSE /\ pre_idx' = [pre_idx EXCEPT
                                                     ![t] = r.frame.seq_num]
                                    /\ pc' = [pc EXCEPT ![t] = "wait"]
                                    /\ BeginWait(t)
                                    /\ UNCHANGED result
          [] r.tag = "Ok" /\ r.frame.variant = "First" ->
                /\ pc' = [pc EXCEPT ![t] = "fc"]
                /\ UNCHANGED << overflow_checks, idleUpd, result, waitVars,
                                seen, rtVars >>
          [] r.tag = "Ok" /\ r.frame.variant \notin {"Consecutive", "First"} ->
                /\ pc' = [pc EXCEPT ![t] = "wait"]
                /\ BeginWait(t)
                /\ UNCHANGED << overflow_checks, result, rtVars >>
          [] r.tag = "Error" ->
                /\ Leave(t, ProcessResult(remain[t]))
                /\ UNCHANGED << overflow_checks, idleUpd, waitVars, seen,
                                rtVars >>
    /\ UNCHANGED << slotVars, mode, codec, sock, slot, loopVars, op, phase, cmdret,
                    wire >>

-----------------------------------------------------------------------------
(* The program: the receive task, the request task and the tasks it spawns *)

Next ==
    \/ Receive
    \/ UpdateNotify
    \/ \E t \in EventTasks, code \in UiCodes : Dispatch(t, code)
    \/ \E t \in Tasks : Lock(t)
    \/ \E t \in Tasks : SendRequest(t)
    \/ \E t \in Tasks : WaitPoll(t)
    \/ \E t \in Tasks : TimerElapse(t)
    \/ \E t \in Tasks : SelectWake(t)
    \/ \E t \in Tasks : SelectTimeout(t)
    \/ \E t \in Tasks : WaitRead(t)
    \/ \E t \in Tasks : HandleResponse(t)
    \/ \E t \in Tasks : FlowControl(t)
    \/ \E t \in Tasks : LoopResponse(t)
    \/ \E t \in Tasks : Finish(t)

Spec == Init /\ [][Next]_vars

-----------------------------------------------------------------------------
(* The library used directly: callers that hold the client exclusively     *)
(* (&mut self) call uds_reset_* and send_frame_with_response one after the *)
(* other, while the receive task feeds the slot.                           *)

InitApi ==
    /\ InitSlot
    /\ mode = "api"
    /\ overflow_checks = "unknown"
    /\ bootDone = TRUE
    /\ loopDead = FALSE
    /\ clientLock = NoTask
    /\ pc = [t \in Tasks |-> IF t = BootTask THEN "done" ELSE "idle"]
    /\ InitCalls
    /\ codec = CodecIdle
    /\ sock = SockIdle
    /\ slot = SlotIdle

\* a caller starts one of the operations of the client
Call(t, o) == Start(t, o)

NextApi ==
    \/ Receive
    \/ UpdateNotify
    \/ \E t \in EventTasks, o \in ApiOps : Call(t, o)
    \/ \E t \in Tasks : Lock(t)
    \/ \E t \in Tasks : SendRequest(t)
    \/ \E t \in Tasks : WaitPoll(t)
    \/ \E t \in Tasks : TimerElapse(t)
    \/ \E t \in Tasks : SelectWake(t)
    \/ \E t \in Tasks : SelectTimeout(t)
    \/ \E t \in Tasks : WaitRead(t)
    \/ \E t \in Tasks : HandleResponse(t)
    \/ \E t \in Tasks : Finish(t)

SpecApi == InitApi /\ [][NextApi]_vars

-----------------------------------------------------------------------------
(* The library used directly: send_command and send_frame, which do not    *)
(* wait for a response.                                                    *)

NextSend ==
    \/ Receive
    \/ UpdateNotify
    \/ \E t \in EventTasks, o \in SendOps : Call(t, o)
    \/ \E t \in Tasks : Lock(t)
    \/ \E t \in Tasks : SendRequest(t)
    \/ \E t \in Tasks : Finish(t)

SpecSend == InitApi /\ [][NextSend]_vars

-----------------------------------------------------------------------------
(* The frame codec used on its own: from_vec on byte sequences, to_vec on  *)
(* frame values, the constructors, and send_frame on the frames.           *)

\* byte 0 of the sequences: the four variant tags with several low nibbles,
\* and two bytes with another high nibble
TagBytes == { 2, 3, 16, 31, 33, 48, 64, 255 }
\* the other bytes: 0x00, 0x11 (ECUReset; also an error code), 0x40 (neither
\* a command nor an error code), 0x78 (ResponsePending), 0x7F
DataBytes == { 0, 17, 64, 120, 127 }

ByteInputs ==
    LET heads == { << tag >> \o d :
                     tag \in TagBytes,
                     d \in UNION { [1..k -> DataBytes] : k \in 0..(MaxHead - 1) } }
        tail == [i \in 1..(MaxLen - MaxHead) |-> i]
    IN { << >> }
         \cup { h \o SubSeq(tail, 1, k) :
                   h \in heads,
                   k \in 0..(MaxLen - MaxHead) }

\* payloads and paddings of 0..MaxPayload bytes
Payloads ==
    { [i \in 1..k |-> 17 * i] : k \in 0..MaxPayload } \cup { << 0 >>, << 64 >> }

Dids == { NoDid, 16384, 61840 }

\* frame values: the fields are public, so a value need not come from a
\* constructor; the numeric fields take any value of their type
FrameValues ==
    { [variant |-> "Single", size |-> sz, sid |-> sid, did |-> did,
       payload |-> p] :
         sz \in { 0, 2, 7, 18 }, sid \in { 17, 127 }, did \in Dids,
         p \in Payloads }
    \cup { [variant |-> "First", size |-> sz, sid |-> 106, did |-> did,
            payload |-> p] :
              sz \in { 10, 4095, 4106 }, did \in Dids, p \in Payloads }
    \cup { [variant |-> "Consecutive", seq_num |-> n, payload |-> p] :
              n \in { 0, 1, 15, 33 }, p \in Payloads }
    \cup { [variant |-> "FlowControl", flag |-> fl, block_size |-> bs,
            separation_time |-> 20, padding |-> p] :
              fl \in { 0, 2, 17 }, bs \in { 0, 8 }, p \in Payloads }
    \cup { [variant |-> "NegativeResp", size |-> sz, rsid |-> rsid,
            nrc |-> nrc] :
              sz \in { 3, 19 }, rsid \in { 17, 42 }, nrc \in { 34, 120 } }

\* arguments of the constructors
CtorArgs ==
    { [ctor |-> "Single", sid |-> 34, did |-> did, payload |-> p] :
         did \in Dids, p \in Payloads }
    \cup { [ctor |-> "First", sid |-> 106, size |-> sz, did |-> did,
            payload |-> p] :
              sz \in { 10, 4095 }, did \in Dids, p \in Payloads }
    \cup { [ctor |-> "Consecutive", seq_num |-> n, payload |-> p] :
              n \in { 1, 15 }, p \in Payloads }
    \cup { [ctor |-> "FlowControl", flag |-> 0, block_size |-> bs,
            separation_time |-> 20, padding |-> p] :
              bs \in { 0, 8 }, p \in Payloads }
    \cup { [ctor |-> "NegativeResp", rsid |-> 17, nrc |-> nrc, size |-> 3] :
              nrc \in { 34, 120 } }

CodecInputs ==
    { [stage |-> "bytes", data |-> b] : b \in ByteInputs }
    \cup { [stage |-> "frame", from |-> "value", frame |-> f] :
              f \in FrameValues }
    \cup { [stage |-> "args", args |-> a] : a \in CtorArgs }

InitCodec ==
    /\ InitSlot
    /\ mode = "api"
    /\ overflow_checks = "unknown"
    /\ bootDone = TRUE
    /\ loopDead = FALSE
    /\ clientLock = NoTask
    /\ pc = [t \in Tasks |-> IF t = BootTask THEN "done" ELSE "idle"]
    /\ InitCalls
    /\ codec \in CodecInputs
    /\ slot = SlotIdle
    /\ sock = SockIdle

notCodec == << slotVars, idleUpd, mode, overflow_checks, sock, slot, loopVars, pc,
               op, phase, waitVars, seen, rtVars, callVars >>

\* UdsFrame::from_vec(data)
Decode ==
    /\ codec.stage = "bytes"
    /\ codec' = [stage |-> "decoded", data |-> codec.data,
                 res |-> FromVec(codec.data)]
    /\ UNCHANGED notCodec

\* to_vec of the frame from_vec returned
Reencode ==
    /\ codec.stage = "decoded"
    /\ codec.res.ok
    /\ codec' = [stage |-> "reencoded", data |-> codec.data, res |-> codec.res,
                 enc |-> ToVec(codec.res.frame)]
    /\ UNCHANGED notCodec

\* one of the constructors: Ok(frame), or Err
Construct ==
    /\ codec.stage = "args"
    /\ LET r == New(codec.args) IN
       codec' = IF r.ok
                THEN [stage |-> "frame", from |-> "new", frame |-> r.frame]
                ELSE [stage |-> "rejected", args |-> codec.args,
                      error |-> r.error]
    /\ UNCHANGED notCodec

\* frame.to_vec()
Encode ==
    /\ codec.stage = "frame"
    /\ codec' = [stage |-> "encoded", from |-> codec.from,
                 frame |-> codec.frame, enc |-> ToVec(codec.frame)]
    /\ UNCHANGED notCodec

\* from_vec of the bytes to_vec returned
Redecode ==
    /\ codec.stage = "encoded"
    /\ codec.enc.ok
    /\ codec' = [stage |-> "redecoded", from |-> codec.from,
                 frame |-> codec.frame, enc |-> codec.enc,
                 res |-> FromVec(codec.enc.bytes)]
    /\ UNCHANGED notCodec

\* client.send_frame(frame)
SendFrame(t) ==
    /\ codec.stage = "encoded"
    /\ Call(t, [svc |-> "frame", arg |-> codec.frame])

NextCodec ==
    \/ Decode
    \/ Reencode
    \/ Construct
    \/ Encode
    \/ Redecode
    \/ \E t \in EventTasks : SendFrame(t)
    \/ \E t \in Tasks : Lock(t)
    \/ \E t \in Tasks : SendRequest(t)
    \/ \E t \in Tasks : Finish(t)

SpecCodec == InitCodec /\ [][NextCodec]_vars

-----------------------------------------------------------------------------
(* socket_can/mod.rs : the socket behind Arc<Mutex<..>>, shared by the     *)
(* transmit half (the client's channel) and the receive half (the receive  *)
(* task of main.rs).                                                       *)

\* the requests sent through the socket
SocketOps == { o \in ApiOps : o.svc # "frame_resp" }

InitSocket ==
    /\ InitSlot
    /\ mode = "api"
    /\ overflow_checks = "unknown"
    /\ bootDone = TRUE
    /\ loopDead = FALSE
    /\ clientLock = NoTask
    /\ pc = [t \in Tasks |-> IF t = BootTask THEN "done" ELSE "idle"]
    /\ InitCalls
    /\ codec = CodecIdle
    /\ sock \in { [SockIdle EXCEPT !.os = o] : o \in {"linux", "windows"} }
    /\ slot = SlotIdle

notSock == << slotVars, idleUpd, mode, overflow_checks, codec, slot, loopVars, pc,
              op, phase, waitVars, seen, rtVars, callVars >>

\* a socket that is not behind a mutex
SocketFreeAlways == TRUE

\* std Mutex::lock on the socket can complete
SocketFree == sock.lock = NoTask

\* UdsSocketRx: self.rx.lock().unwrap() at the start of a driver call:
\* read_frame_timeout (linux), is_receiving or recv_frame (windows)
RxAcquire ==
    /\ sock.rx \in {"idle", "between", "ready"}
    /\ SocketFree
    /\ sock' = [sock EXCEPT !.lock = RxTask,
                            !.calls = @ \cup {RxTask},
                            !.rx = IF sock.rx = "ready" THEN "recv"
                                   ELSE "driver"]
    /\ UNCHANGED notSock

\* the driver call of the receive half returns and the guard is dropped.
\*   linux: read_frame_timeout gives a frame, or Err after the timeout
\*   windows: is_receiving gives Ok(true), Ok(false) before or after the
\*            timeout, or Err; recv_frame gives a frame or Err
RxReturn ==
    /\ sock.rx \in {"driver", "recv"}
    /\ RxTask \in sock.calls
    /\ \E out \in {"frame", "err", "true", "false"} :
       \E b \in (IF out = "frame" THEN EcuPayloads ELSE { << >> }) :
        /\ out = "frame" => /\ nupd < MaxRx
                            /\ sock.os = "linux" \/ sock.rx = "recv"
        /\ out \in {"true", "false"} => (sock.os = "windows" /\ sock.rx = "driver")
        /\ sock' = [sock EXCEPT
                      !.lock = IF @ = RxTask THEN NoTask ELSE @,
                      !.calls = @ \ {RxTask},
                      !.rx = CASE out = "frame" -> "got"
                               [] out = "err" -> "sleep"
                               [] out = "true" -> "ready"
                               [] out = "false" -> "between",
                      !.frame = b,
                      !.at = nupd]
    /\ UNCHANGED notSock

\* windows: the loop of receive_with_timeout finds the timeout elapsed
RxTimeout ==
    /\ sock.rx = "between"
    /\ sock' = [sock EXCEPT !.rx = "sleep"]
    /\ UNCHANGED notSock

\* the receive task hands the frame to update_response
RxUpdate ==
    /\ sock.rx = "got"
    /\ nupd = sock.at
    /\ UpdateReplace(sock.frame)

\* tokio::time::sleep(10 ms) of the receive task, then the next turn
RxSleep ==
    /\ \/ sock.rx = "sleep"
       \/ sock.rx = "got" /\ nupd > sock.at /\ rxpc = "poll"
    /\ sock' = [sock EXCEPT !.rx = "idle", !.frame = << >>]
    /\ UNCHANGED notSock

\* UdsSocketTx::transmit: self.tx.lock().unwrap()
TxAcquire(t) ==
    /\ pc[t] = "send"
    /\ t \notin sock.calls
    /\ SocketFree
    /\ sock' = [sock EXCEPT !.lock = t, !.calls = @ \cup {t}]
    /\ UNCHANGED notSock

\* the driver's transmit (send) under the guard
TxDriver(t) ==
    /\ t \in sock.calls
    /\ SendRequest(t)

\* transmit returns and the guard is dropped
TxRelease(t) ==
    /\ t \in sock.calls
    /\ pc[t] # "send"
    /\ sock' = [sock EXCEPT !.lock = IF @ = t THEN NoTask ELSE @,
                            !.calls = @ \ {t}]
    /\ UNCHANGED notSock

\* a step of task t outside the socket
OffSocket(t) ==
    /\ t \notin sock.calls
    /\ \/ Lock(t)
       \/ WaitPoll(t)
       \/ TimerElapse(t)
       \/ SelectWake(t)
       \/ SelectTimeout(t)
       \/ WaitRead(t)
       \/ HandleResponse(t)
       \/ Finish(t)

NextSocket ==
    \/ RxAcquire
    \/ RxReturn
    \/ RxTimeout
    \/ RxUpdate
    \/ UpdateNotify
    \/ RxSleep
    \/ \E t \in EventTasks, o \in SocketOps : Call(t, o)
    \/ \E t \in Tasks : TxAcquire(t)
    \/ \E t \in Tasks : TxDriver(t)
    \/ \E t \in Tasks : TxRelease(t)
    \/ \E t \in Tasks : OffSocket(t)

SpecSocket == InitSocket /\ [][NextSocket]_vars

\* the service routines called one after the other on the client
NextServices ==
    \/ Receive
    \/ UpdateNotify
    \/ \E t \in EventTasks, o \in ServiceOps : Call(t, o)
    \/ \E t \in Tasks : Lock(t)
    \/ \E t \in Tasks : SendRequest(t)
    \/ \E t \in Tasks : WaitPoll(t)
    \/ \E t \in Tasks : TimerElapse(t)
    \/ \E t \in Tasks : SelectWake(t)
    \/ \E t \in Tasks : SelectTimeout(t)
    \/ \E t \in Tasks : WaitRead(t)
    \/ \E t \in Tasks : HandleResponse(t)
    \/ \E t \in Tasks : FlowControl(t)
    \/ \E t \in Tasks : LoopResponse(t)
    \/ \E t \in Tasks : Finish(t)

SpecServices == InitApi /\ [][NextServices]_vars

-----------------------------------------------------------------------------
(* services/realtime.rs : a periodic read called on the client while the   *)
(* ECU sends the frames of a stream, well-formed or not.                   *)

\* what the ECU sends: a First Frame of size 10 with 3 bytes, a First Frame
\* whose size (2) is less than the 3 bytes it carries, Consecutive Frames
\* 1 and 2 of 7 bytes, a Single Frame, a negative response, a Flow Control
\* frame
StreamPayloads ==
    { FirstBytes, << 16, 2, 106, 1, 176, 170, 187, 204 >>, Consecutive1Bytes,
      << 34, 8, 9, 10, 11, 12, 13, 14 >>, SingleBytes, NegativeBytes,
      FlowControlBytes }

\* the receive task gets one more frame of the stream
ReceiveStream ==
    /\ nupd < MaxRx
    /\ \E b \in StreamPayloads : UpdateReplace(b)

NextStream ==
    \/ ReceiveStream
    \/ UpdateNotify
    \/ \E t \in EventTasks : Call(t, [svc |-> "rt_start", arg |-> 1])
    \/ \E t \in Tasks : Lock(t)
    \/ \E t \in Tasks : SendRequest(t)
    \/ \E t \in Tasks : WaitPoll(t)
    \/ \E t \in Tasks : TimerElapse(t)
    \/ \E t \in Tasks : SelectWake(t)
    \/ \E t \in Tasks : SelectTimeout(t)
    \/ \E t \in Tasks : WaitRead(t)
    \/ \E t \in Tasks : HandleResponse(t)
    \/ \E t \in Tasks : FlowControl(t)
    \/ \E t \in Tasks : LoopResponse(t)
    \/ \E t \in Tasks : Finish(t)

SpecStream == InitApi /\ [][NextStream]_vars

-----------------------------------------------------------------------------
(* A well-formed stream of MaxRx frames: while a periodic read is in       *)
(* progress the ECU sends a First Frame with 3 bytes and the in-order      *)
(* Consecutive Frames, of 7 bytes each, that complete its size, and then   *)
(* stops; every frame is handed to update_response, and the slot's timeout *)
(* elapses only after the last one.                                        *)

\* frame number k of the stream, k = 0 for the First Frame
OrderedFrame(k) ==
    IF k = 0
    THEN << 16, 3 + 7 * (MaxRx - 1), 106, 1, 176, 170, 187, 204 >>
    ELSE << 32 + k, 1, 2, 3, 4, 5, 6, 7 >>

\* the receive task gets the next frame of the stream, after the request
\* has been transmitted and before its call has returned
ReceiveOrdered ==
    /\ nupd < MaxRx
    /\ \E t \in Tasks : Len(wire[t]) >= 1 /\ pc[t] # "ret"
    /\ UpdateReplace(OrderedFrame(nupd))

NextLossless ==
    \/ ReceiveOrdered
    \/ UpdateNotify
    \/ \E t \in EventTasks : Call(t, [svc |-> "rt_start", arg |-> 1])
    \/ \E t \in Tasks : Lock(t)
    \/ \E t \in Tasks : SendRequest(t)
    \/ \E t \in Tasks : WaitPoll(t)
    \/ \E t \in Tasks : nupd = MaxRx /\ rxpc = "poll" /\ TimerElapse(t)
    \/ \E t \in Tasks : SelectWake(t)
    \/ \E t \in Tasks : SelectTimeout(t)
    \/ \E t \in Tasks : WaitRead(t)
    \/ \E t \in Tasks : HandleResponse(t)
    \/ \E t \in Tasks : FlowControl(t)
    \/ \E t \in Tasks : LoopResponse(t)
    \/ \E t \in Tasks : Finish(t)

SpecLossless == InitApi /\ [][NextLossless]_vars

-----------------------------------------------------------------------------
(* An ECU that never stops: periodic data (RealTimeType::FastRate, every   *)
(* 100 ms) or 0x78 responses keep arriving at a period shorter than the    *)
(* slot's timeout (1000 ms), and every task that can run does run.         *)

\* the receive task stores one more frame; nupd counts modulo MaxRx + 1,
\* and the ECU starts a new stream only while the call in progress has
\* transmitted fewer than MaxRx frames
ReceivePeriodic ==
    /\ rxpc = "poll"
    /\ \E b \in { FirstBytes, Consecutive1Bytes, PendingBytes } :
        /\ b = FirstBytes => \A t \in Tasks : Len(wire[t]) < MaxRx
        /\ current' = Replace(current, DecodeResponse(b))
        /\ lastBytes' = b
        /\ changed' = (DecodeResponse(b) # current)
    /\ nupd' = (nupd + 1) % (MaxRx + 1)
    /\ idleUpd' = IF \E t \in Tasks : InWait(t) THEN idleUpd
                  ELSE IF idleUpd < 2 THEN idleUpd + 1 ELSE 2
    /\ rxpc' = "notify"
    /\ UNCHANGED << permit, waiters, notified, buildVars, loopVars, pc, op,
                    phase, waitVars, seen, rtVars, callVars >>

\* a step of task t inside its call; the sleep of its select! elapses only
\* if no frame has been stored since the wait began
TaskStep(t) ==
    \/ Lock(t)
    \/ SendRequest(t)
    \/ WaitPoll(t)
    \/ nupd = waitStart[t] /\ TimerElapse(t)
    \/ SelectWake(t)
    \/ SelectTimeout(t)
    \/ WaitRead(t)
    \/ HandleResponse(t)
    \/ FlowControl(t)
    \/ LoopResponse(t)
    \/ Finish(t)

NextPeriodic ==
    \/ ReceivePeriodic
    \/ UpdateNotify
    \/ Call(1, [svc |-> "rt_start", arg |-> 3])
    \/ \E t \in Tasks : TaskStep(t)

SpecPeriodic ==
    /\ InitApi
    /\ [][NextPeriodic]_vars
    /\ WF_vars(ReceivePeriodic)
    /\ WF_vars(UpdateNotify)
    /\ \A t \in Tasks : WF_vars(TaskStep(t))

-----------------------------------------------------------------------------
(* ui.rs : the conversion of the integer the UI callback hands over (the   *)
(* `chip` of on_reset in main.rs) into the event the request task serves.  *)

\* the integers handed to try_from lie in -MaxCode..MaxCode
MaxCode == 330

UiInputs == (0 - MaxCode)..MaxCode

\* UiEventTx::try_from(ui_type): match ui_type as u8, the cast keeping the
\* low eight bits of the i32; Ok with the event of the arm (as the service
\* it stands for), or Err(())
UiTryFrom(ui_type) ==
    LET c == ui_type % 256 IN
    IF c \in (1..4) \cup (64..71)
    THEN [ok |-> TRUE, op |-> EventOp(c)]
    ELSE [ok |-> FALSE]

InitUi ==
    /\ InitSlot
    /\ mode = "api"
    /\ overflow_checks = "unknown"
    /\ bootDone = TRUE
    /\ loopDead = FALSE
    /\ clientLock = NoTask
    /\ pc = [t \in Tasks |-> IF t = BootTask THEN "done" ELSE "idle"]
    /\ InitCalls
    /\ codec \in { [stage |-> "ui", code |-> c] : c \in UiInputs }
    /\ slot = SlotIdle
    /\ sock = SockIdle

\* chip.try_into()
TryInto ==
    /\ codec.stage = "ui"
    /\ codec' = [stage |-> "event", code |-> codec.code,
                 res |-> UiTryFrom(codec.code)]
    /\ UNCHANGED notCodec

\* the event is sent to the request task, which runs its service
ServeEvent(t) ==
    /\ codec.stage = "event"
    /\ codec.res.ok
    /\ Call(t, codec.res.op)

NextUi ==
    \/ TryInto
    \/ \E t \in EventTasks : ServeEvent(t)
    \/ \E t \in Tasks : Lock(t)
    \/ \E t \in Tasks : SendRequest(t)
    \/ \E t \in Tasks : Finish(t)

SpecUi == InitUi /\ [][NextUi]_vars

-----------------------------------------------------------------------------
(* response.rs : the slot used directly.  Its methods take &self, so any   *)
(* number of consumers call wait_for_response and get() while the receive  *)
(* task calls update_response; the tokio Mutex around the cell is explicit *)
(* and a consumer can be dropped while it is suspended.                    *)

\* consumers dropped in one behaviour
MaxDrops == 1

notSlot == << slotVars, idleUpd, mode, overflow_checks, codec, sock, loopVars,
              pc, op, phase, waitVars, seen, rtVars, callVars >>

\* a cell that is not behind a mutex
SlotFreeAlways == TRUE

\* tokio Mutex::lock on the cell can complete, try_lock succeeds
SlotFree == slot.lock = NoTask

\* update_response: self.0.lock().await
UpdateLock ==
    /\ rxpc = "poll"
    /\ nupd < MaxRx
    /\ RxTask \notin slot.calls
    /\ SlotFree
    /\ slot' = [slot EXCEPT !.lock = RxTask, !.calls = @ \cup {RxTask}]
    /\ UNCHANGED notSlot

\* the payloads the receive task hands to update_response: a positive
\* and a negative response
SlotPayloads == { SingleBytes, NegativeBytes }

\* update_response: .replace(resp) under the guard
UpdateStore ==
    /\ RxTask \in slot.calls
    /\ \E b \in SlotPayloads : UpdateReplace(b)

\* consumers are interchangeable: they call in the order of their numbers
InOrder(t) == \A u \in EventTasks : u < t => pc[u] # "idle"

\* wait_for_response is called on the slot
WaitBegin(t) ==
    /\ pc[t] = "idle"
    /\ InOrder(t)
    /\ pc' = [pc EXCEPT ![t] = "wait"]
    /\ op' = [op EXCEPT ![t] = [svc |-> "wait", arg |-> 0]]
    /\ slot' = IF slot.drops > 0 /\ slot.next = NoTask
               THEN [slot EXCEPT !.next = t] ELSE slot
    /\ UNCHANGED << slotVars, idleUpd, mode, overflow_checks, codec, sock,
                    loopVars, phase, waitVars, seen, rtVars, callVars >>

\* wait_for_response: let data = self.0.lock().await
ReadLock(t) ==
    /\ pc[t] = "read"
    /\ t \notin slot.calls
    /\ SlotFree
    /\ slot' = [slot EXCEPT !.lock = t, !.calls = @ \cup {t}]
    /\ UNCHANGED notSlot

\* wait_for_response: match &*data.borrow() under the guard
ReadCell(t) ==
    /\ t \in slot.calls
    /\ WaitRead(t)

\* the guard is dropped: at the end of the statement in update_response,
\* at `continue` or `return` in wait_for_response
GuardDrop(h) ==
    /\ h \in slot.calls
    /\ IF h = RxTask THEN rxpc = "notify" ELSE pc[h] # "read"
    /\ slot' = [slot EXCEPT !.lock = IF @ = h THEN NoTask ELSE @,
                            !.calls = @ \ {h}]
    /\ UNCHANGED notSlot

\* get() is called on the slot: self.1.notified().await takes a stored
\* permit or registers the task with the Notify
GetPoll(t) ==
    /\ pc[t] = "idle"
    /\ InOrder(t)
    /\ op' = [op EXCEPT ![t] = [svc |-> "get", arg |-> 0]]
    /\ IF permit
       THEN /\ permit' = FALSE
            /\ pc' = [pc EXCEPT ![t] = "gtry"]
            /\ UNCHANGED waiters
       ELSE /\ waiters' = Append(waiters, t)
            /\ pc' = [pc EXCEPT ![t] = "gwait"]
            /\ UNCHANGED permit
    /\ UNCHANGED << current, notified, rxpc, nupd, lastBytes, changed,
                    idleUpd, buildVars, loopVars, phase, waitVars, seen,
                    rtVars, callVars >>

\* get(): notified() completes
GetWake(t) ==
    /\ pc[t] = "gwait"
    /\ t \in notified
    /\ notified' = notified \ {t}
    /\ pc' = [pc EXCEPT ![t] = "gtry"]
    /\ UNCHANGED << current, permit, waiters, rxpc, nupd, lastBytes, changed,
                    idleUpd, buildVars, loopVars, op, phase, waitVars, seen,
                    rtVars, callVars >>

\* get(): self.0.try_lock().unwrap().to_owned().into_inner(), Ok(res);
\* try_lock gives Err while the mutex is held and the unwrap panics
GetTry(t) ==
    /\ pc[t] = "gtry"
    /\ IF SlotFree
       THEN Leave(t, [tag |-> "OkResponse", value |-> current])
       ELSE Leave(t, Panic("try_lock"))
    /\ UNCHANGED << slotVars, idleUpd, buildVars, loopVars, op, phase,
                    waitVars, seen, rtVars, cmdret, wire >>

\* The future of a task inside wait_for_response is dropped where it is
\* suspended: in select!, or in self.0.lock().await while the mutex is
\* held.  Dropping a Notified that has been handed a notification passes
\* it on (next waiter, or the permit); otherwise the task leaves the waiter
\* list.  slot.dropUpd keeps the number of update_response calls that had
\* returned by then, slot.next the first wait_for_response called afterwards.
Cancel(t) ==
    /\ slot.drops < MaxDrops
    /\ \/ pc[t] = "select"
       \/ pc[t] = "read" /\ t \notin slot.calls /\ ~SlotFree
    /\ IF pc[t] = "select" /\ t \in notified
       THEN IF waiters # << >>
            THEN /\ notified' = (notified \ {t}) \cup {Head(waiters)}
                 /\ waiters' = Tail(waiters)
                 /\ UNCHANGED permit
            ELSE /\ notified' = notified \ {t}
                 /\ permit' = TRUE
                 /\ UNCHANGED waiters
       ELSE /\ waiters' = Remove(waiters, t)
            /\ UNCHANGED << notified, permit >>
    /\ pc' = [pc EXCEPT ![t] = "dropped"]
    /\ slot' = [slot EXCEPT
                    !.drops = @ + 1,
                    !.dropUpd = IF rxpc = "notify" THEN nupd - 1 ELSE nupd,
                    !.next = NoTask]
    /\ UNCHANGED << current, rxpc, nupd, lastBytes, changed, idleUpd, mode,
                    overflow_checks, codec, sock, loopVars, op, phase,
                    waitVars, seen, rtVars, callVars >>

\* a step of wait_for_response outside the guard
OffSlot(t) ==
    /\ t \notin slot.calls
    /\ \/ WaitPoll(t)
       \/ TimerElapse(t)
       \/ SelectWake(t)
       \/ SelectTimeout(t)

NextSlot ==
    \/ UpdateLock
    \/ UpdateStore
    \/ GuardDrop(RxTask)
    \/ RxTask \notin slot.calls /\ UpdateNotify
    \/ \E t \in EventTasks : WaitBegin(t)
    \/ \E t \in EventTasks : OffSlot(t)
    \/ \E t \in EventTasks : ReadLock(t)
    \/ \E t \in EventTasks : ReadCell(t)
    \/ \E t \in EventTasks : GuardDrop(t)
    \/ \E t \in EventTasks : GetPoll(t)
    \/ \E t \in EventTasks : GetWake(t)
    \/ \E t \in EventTasks : GetTry(t)
    \/ \E t \in EventTasks : Cancel(t)

SpecSlot == InitApi /\ [][NextSlot]_vars

-----------------------------------------------------------------------------
(* The response slot: pending retry, last update wins, timeout.            *)

\* C1: a wait_for_response that is woken for a 0x78 (response pending) value
\* goes on waiting for the value V that supersedes it, so what a call
\* returns on a wake is V and never the 0x78 value.
PendingRetrySupersession ==
    \A t \in Tasks :
        (pc[t] = "back" /\ via[t] = "wake") => ~IsPendingValue(wresp[t])

\* C2: a wait_for_response that has read nothing but 0x78 values returns only
\* when its timeout expires, and then returns the 0x78 value it has stashed.
PendingRetryAtTimeout ==
    \A t \in Tasks :
        (pc[t] = "back" /\ seen[t] = "pending")
            => /\ via[t] = "timeout"
               /\ stash[t] # NoResp
               /\ wresp[t] = stash[t]

\* C3: when two or more updates were stored while no wait_for_response was in
\* progress, and none is stored during the next call, that call returns on a
\* wake the value decoded from the last payload.
LastUpdateWins ==
    \A t \in Tasks :
        (pc[t] = "back" /\ quietUpd[t] >= 2 /\ waitStart[t] = nupd)
            => /\ via[t] = "wake"
               /\ wresp[t] = DecodeResponse(lastBytes)

\* a call has returned after two updates with different values, stored
\* before it began
LastUpdateWinsWitness ==
    \E t \in Tasks :
        /\ pc[t] = "back"
        /\ quietUpd[t] >= 2
        /\ waitStart[t] = nupd
        /\ changed
        /\ wresp[t] = DecodeResponse(lastBytes)

\* C4: a wait_for_response that returns through its timeout with nothing
\* stashed returns Error(Timeout), and the request it was the wait of ends
\* with Err(Timeout) at the caller.
TimeoutResult ==
    \A t \in Tasks :
        (via[t] = "timeout" /\ stash[t] = NoResp)
            => /\ pc[t] = "back" => wresp[t] = RespError(Timeout)
               /\ (pc[t] = "ret" /\ phase[t] = "req")
                    => result[t] = RespError(Timeout)

\* a reset request that the ECU never answered has ended with Err(Timeout)
TimeoutResultWitness ==
    \E t \in Tasks :
        /\ pc[t] = "ret"
        /\ op[t].svc = "reset"
        /\ via[t] = "timeout"
        /\ waitStart[t] = nupd
        /\ result[t] = RespError(Timeout)

-----------------------------------------------------------------------------
(* The request task: serialization of the request/response pairs.          *)

\* C5: while a task waits for the response to the request it has transmitted,
\* no other task is anywhere between transmitting a request and handing
\* back its result: at most one request is outstanding on the slot.
StrictSerialization ==
    \A t, u \in Tasks :
        (t # u /\ InWait(t))
            => pc[u] \notin {"send", "wait", "select", "read", "back", "fc",
                             "ret"}

\* a request is outstanding while the task spawned for the next UI event
\* waits for the client
StrictSerializationWitness ==
    \E t, u \in Tasks :
        /\ t # u
        /\ mode = "spawn"
        /\ pc[t] = "select"
        /\ pc[u] = "lock"

-----------------------------------------------------------------------------
(* real_time_data_process: the receive machine.                            *)

\* C6: a Consecutive Frame whose sequence number is not (prev + 1) mod 16
\* makes the service call return InvalidResponseLength.
SequenceDiscipline ==
    \A t \in Tasks :
        (/\ pc[t] = "ret"
         /\ phase[t] = "loop"
         /\ wresp[t].tag = "Ok"
         /\ wresp[t].frame.variant = "Consecutive"
         /\ wresp[t].frame.seq_num # (pre_idx[t] + 1) % 16)
            => result[t] = RespError(InvalidResponseLength)

\* C7: the receive machine returns success exactly when it leaves the loop
\* with remain = 0, then First.size = len(First.payload) + the Consecutive
\* bytes taken, and every other exit returns InvalidResponseLength.  The
\* exits looked at are those of the loop: on a Consecutive Frame, or on the
\* error (timeout) that ends the stream.
SizeAccounting ==
    \A t \in Tasks :
        (/\ pc[t] = "ret"
         /\ phase[t] = "loop"
         /\ wresp[t].tag = "Ok" => wresp[t].frame.variant = "Consecutive")
            => /\ result[t] = OkUnit <=> (wresp[t].tag = "Error" /\ remain[t] = 0)
               /\ result[t] = OkUnit
                    => stream[t].size = stream[t].len + stream[t].got
               /\ result[t] # OkUnit
                    => result[t] = RespError(InvalidResponseLength)

-----------------------------------------------------------------------------
(* The client core: negative responses, send with response, transmit.     *)

\* C8: a request answered by a negative response whose code is not 0x78
\* returns Err(ECUError{code, rsid}) from send_command_with_response and
\* from the service routine, here uds_reset_*: never success.
NegativeResponseIsError ==
    \A t \in Tasks :
        (/\ pc[t] = "ret"
         /\ phase[t] = "req"
         /\ op[t].svc = "reset"
         /\ wresp[t].tag = "Ok"
         /\ wresp[t].frame.variant = "NegativeResp"
         /\ wresp[t].frame.nrc # ResponsePending)
            => /\ cmdret[t] = RespError(ECUError(wresp[t].frame.nrc,
                                                 wresp[t].frame.rsid))
               /\ result[t] = cmdret[t]

TransmitFailure ==
    \A t \in Tasks :
        (pc[t] = "ret" /\ RequestBytes(op[t]).ok /\ wire[t] = << >>)
            => result[t] = RespError(ChannelError)

-----------------------------------------------------------------------------
(* send_command, the receive loop, the wire format of the services.        *)

\* C11: send_command(pci, sid, args) puts exactly one payload on the wire,
\* the bytes pci, sid and then args in order, and returns Ok(()).
SendCommandWire ==
    \A t \in Tasks :
        (pc[t] = "ret" /\ op[t].svc = "command" /\ ~IsPanic(result[t]))
            => LET c == TestCommands[op[t].arg] IN
               /\ result[t] = OkUnit
               /\ Len(wire[t]) = 1
               /\ Len(wire[t][1]) = 2 + Len(c.args)
               /\ wire[t][1][1] = c.pci
               /\ wire[t][1][2] = c.sid
               /\ \A i \in 1..Len(c.args) : wire[t][1][2 + i] = c.args[i]

\* send_command(0x02, 0x11, [0x40]) has put [0x02, 0x11, 0x40] on the wire
SendCommandWireWitness ==
    \E t \in Tasks :
        /\ pc[t] = "ret"
        /\ op[t].svc = "command"
        /\ wire[t] = << << 2, 17, 64 >> >>
        /\ result[t] = OkUnit

\* C12: the receive loop has no exit: every received payload is decoded
\* and stored by one update, a payload that does not decode is stored as
\* Error(FrameError(e)) and is what a woken waiter reads, and the loop can
\* take the next payload whatever the earlier payloads and the waiters did.
ReceiveLoop ==
    /\ [](/\ rxpc \in {"poll", "notify"}
          /\ (rxpc = "poll" /\ nupd < MaxRx) => ENABLED Receive
          /\ nupd > 0 =>
                LET d == FromVec(lastBytes) IN
                current = IF d.ok THEN RespOk(d.frame)
                          ELSE RespError(FrameError(d.error)))
    /\ [][/\ nupd' # nupd => (nupd' = nupd + 1 /\ rxpc' = "notify")
          /\ \A t \in Tasks :
                (pc[t] = "read" /\ pc'[t] = "back" /\ ~FromVec(lastBytes).ok)
                    => wresp'[t] = RespError(FrameError(FromVec(lastBytes).error))
         ]_vars

\* a waiter was woken with the decode error of the payload [0x40], after
\* another task had ended on a failed call, and the loop has stored a further
\* payload since
ReceiveLoopWitness ==
    \E t, u \in Tasks :
        /\ pc[t] = "back"
        /\ via[t] = "wake"
        /\ wresp[t] = RespError(FrameError("InvalidFrameType"))
        /\ u # t
        /\ pc[u] = "panic"
        /\ nupd >= 2
        /\ current # wresp[t]

\* C13: each service routine transmits its request as one Single frame:
\* the reset routines [0x02, 0x11, sub_id] with the sub-identifier of their
\* target (0x40..0x47), the periodic-read start routines
\* [0x03, 0x2A, rate, 0xB0] with rate 1, 2, 3, the stop routine
\* [0x03, 0x2A, 0x04, 0xB0]; a reset and the stop transmit nothing else and
\* never enter the multi-frame receive machine.
ServiceWireFormat ==
    LET request(name) ==
            CASE name = "uds_reset_118" -> << 2, 17, 64 >>
              [] name = "uds_reset_148" -> << 2, 17, 65 >>
              [] name = "uds_reset_imx" -> << 2, 17, 66 >>
              [] name = "uds_reset_esp32_wifi" -> << 2, 17, 67 >>
              [] name = "uds_reset_esp32_ble" -> << 2, 17, 68 >>
              [] name = "uds_reset_lte" -> << 2, 17, 69 >>
              [] name = "uds_reset_lizard" -> << 2, 17, 70 >>
              [] name = "uds_reset_cendric" -> << 2, 17, 71 >>
              [] name = "uds_real_time_data_slow" -> << 3, 42, 1, 176 >>
              [] name = "uds_real_time_data_medium" -> << 3, 42, 2, 176 >>
              [] name = "uds_real_time_data_fast" -> << 3, 42, 3, 176 >>
              [] name = "uds_real_time_data_stop" -> << 3, 42, 4, 176 >>
    IN \A t \in Tasks :
        op[t] \in ServiceOps =>
            /\ (InWait(t) \/ pc[t] \in {"back", "fc"} \/ phase[t] # "req")
                    => (Len(wire[t]) >= 1 /\ wire[t][1] = request(op[t].name))
            /\ (pc[t] = "ret" /\ ~IsPanic(result[t]))
                    => (Len(wire[t]) >= 1 /\ wire[t][1] = request(op[t].name))
            /\ op[t].svc \in {"reset", "rt_stop"}
                    => /\ Len(wire[t]) <= 1
                       /\ phase[t] = "req"
                       /\ pc[t] # "fc"

\* uds_reset_lizard has returned Ok(()) with [0x02, 0x11, 0x46] on the wire
ServiceWireFormatWitness ==
    \E t \in Tasks :
        /\ pc[t] = "ret"
        /\ op[t] \in ServiceOps
        /\ op[t].name = "uds_reset_lizard"
        /\ result[t] = OkUnit
        /\ wire[t] = << << 2, 17, 70 >> >>

-----------------------------------------------------------------------------
(* The frame codec.                                                        *)

\* C14: round trip: for every legal frame f (payload within the encode
\* bound, size, sequence number and flag within their nibble or 12 bits),
\* from_vec(to_vec(f)) succeeds and gives f back, where for Single and First
\* frames the DID bytes and the payload are compared as one byte string
\* (the decoder decides anew where the DID ends).
CodecRoundTrip ==
    LET f == codec.frame
        g == codec.res.frame
        legal ==
            CASE f.variant = "Single" -> Len(f.payload) <= 7 /\ f.size <= 15
              [] f.variant = "First" -> Len(f.payload) <= 6 /\ f.size <= 4095
              [] f.variant = "Consecutive" ->
                    Len(f.payload) <= 7 /\ f.seq_num <= 15
              [] f.variant = "FlowControl" ->
                    Len(f.padding) <= 5 /\ f.flag <= 15
              [] f.variant = "NegativeResp" -> f.size <= 15
    IN (codec.stage = "redecoded" /\ legal)
        => /\ codec.res.ok
           /\ g.variant = f.variant
           /\ IF f.variant \in {"Single", "First"}
              THEN /\ g.size = f.size
                   /\ g.sid = f.sid
                   /\ DidBytes(g.did) \o g.payload
                        = DidBytes(f.did) \o f.payload
              ELSE g = f

\* C15: re-encode: for every byte sequence b of 1 to 8 bytes that from_vec
\* decodes, to_vec of the decoded frame succeeds and gives exactly b.
ReencodeIdempotent ==
    (codec.stage = "reencoded" /\ Len(codec.data) \in 1..8)
        => (codec.enc.ok /\ codec.enc.bytes = codec.data)

\* C16: the high nibble of byte 0 alone selects the variant from_vec decodes
\* (0 Single or NegativeResp, 1 First, 2 Consecutive, 3 FlowControl), any
\* other high nibble fails with InvalidFrameType and only those do, and
\* byte 0 of what to_vec emits has the high nibble of the frame's variant,
\* whatever the values of the fields.
VariantTag ==
    LET tag(variant) ==
            CASE variant \in {"Single", "NegativeResp"} -> 0
              [] variant = "First" -> 1
              [] variant = "Consecutive" -> 2
              [] variant = "FlowControl" -> 3
    IN /\ (codec.stage \in {"decoded", "reencoded"} /\ Len(codec.data) >= 1)
            => LET h == codec.data[1] \div 16 IN
               IF h \in 0..3
               THEN IF codec.res.ok THEN tag(codec.res.frame.variant) = h
                    ELSE codec.res.error # "InvalidFrameType"
               ELSE ~codec.res.ok /\ codec.res.error = "InvalidFrameType"
       /\ (codec.stage \in {"encoded", "redecoded"} /\ codec.enc.ok)
            => /\ Len(codec.enc.bytes) >= 1
               /\ codec.enc.bytes[1] \div 16 = tag(codec.frame.variant)
       /\ (codec.stage = "reencoded" /\ codec.enc.ok)
            => codec.enc.bytes[1] \div 16 = tag(codec.res.frame.variant)

\* a First frame whose size does not fit 12 bits was encoded; byte 0 is 0x10
VariantTagWitness ==
    /\ codec.stage = "encoded"
    /\ codec.frame.variant = "First"
    /\ codec.frame.size = 4106
    /\ codec.enc.ok
    /\ codec.enc.bytes[1] = 16

\* C17: from_vec fails with InvalidCanLength on the empty input and with
\* InvalidSize on every input truncated within its variant: a Single frame
\* without byte 1, a Single frame with byte 1 = 0x7F without byte 2 or
\* byte 3, a First or FlowControl frame without byte 1 or byte 2.
DecodeErrorTaxonomy ==
    codec.stage = "decoded"
        => LET b == codec.data
               h == b[1] \div 16
               truncated ==
                   \/ h = 0 /\ Len(b) < 2
                   \/ h = 0 /\ Len(b) >= 2 /\ b[2] = 127 /\ Len(b) < 4
                   \/ h \in {1, 3} /\ Len(b) < 3
           IN IF Len(b) = 0
              THEN ~codec.res.ok /\ codec.res.error = "InvalidCanLength"
              ELSE truncated
                     => (~codec.res.ok /\ codec.res.error = "InvalidSize")

\* C18: a payload whose byte 0 has high nibble 0 and whose byte 1 is 0x7F is
\* never decoded as a Single frame: with a known command in byte 2 and a
\* known error code in byte 3 it is a NegativeResp with size = low nibble of
\* byte 0 and those two codes ([0x03, 0x7F, 0x11, 0x78]: size 3, ECUReset,
\* ResponsePending); an unknown byte 2 gives InvalidSid, an unknown byte 3
\* after a known byte 2 gives InvalidNrc.
NegativeResponseDecode ==
    LET b == codec.data
        r == codec.res
    IN (/\ codec.stage \in {"decoded", "reencoded"}
        /\ Len(b) >= 2
        /\ b[1] \div 16 = 0
        /\ b[2] = 127)
        => /\ r.ok => /\ Len(b) >= 4
                       /\ r.frame = [variant |-> "NegativeResp",
                                     size |-> b[1] % 16, rsid |-> b[3],
                                     nrc |-> b[4]]
                       /\ b[3] \in UdsCommandRepr
                       /\ b[4] \in UdsErrorRepr
           /\ (Len(b) >= 3 /\ b[3] \notin UdsCommandRepr)
                => (~r.ok /\ r.error = "InvalidSid")
           /\ (Len(b) >= 4 /\ b[3] \in UdsCommandRepr
                            /\ b[4] \notin UdsErrorRepr)
                => (~r.ok /\ r.error = "InvalidNrc")
           /\ (Len(b) >= 4 /\ b[3] \in UdsCommandRepr /\ b[4] \in UdsErrorRepr)
                => r.ok
           /\ b = << 3, 127, 17, 120 >>
                => (r.ok /\ r.frame.size = 3 /\ r.frame.rsid = 17
                         /\ r.frame.nrc = ResponsePending)

\* [0x03, 0x7F, 0x11, 0x78] was decoded as the negative response
NegativeResponseDecodeWitness ==
    /\ codec.stage = "decoded"
    /\ codec.data = << 3, 127, 17, 120 >>
    /\ codec.res.ok
    /\ codec.res.frame.variant = "NegativeResp"
    /\ codec.res.frame.nrc = 120

\* C19: every frame a constructor accepted, and every frame to_vec encodes,
\* encodes to between 1 and 8 bytes.
EncodedLengthBound ==
    (codec.stage \in {"encoded", "redecoded"} /\ codec.enc.ok)
        => Len(codec.enc.bytes) \in 1..8

\* C20: to_vec fails with InvalidSize for a Single payload of more than 7
\* bytes, a First payload of more than 6 and a Consecutive payload of more
\* than 7, and encodes no FlowControl frame with more than 5 padding bytes;
\* when to_vec fails, send_frame returns Err(WrongMessage) with nothing
\* transmitted.
EncodeRejectsOverlong ==
    /\ codec.stage \in {"encoded", "redecoded"}
        => LET f == codec.frame
               over ==
                   CASE f.variant = "Single" -> Len(f.payload) > 7
                     [] f.variant = "First" -> Len(f.payload) > 6
                     [] f.variant = "Consecutive" -> Len(f.payload) > 7
                     [] f.variant = "FlowControl" -> Len(f.padding) > 5
                     [] f.variant = "NegativeResp" -> FALSE
           IN over => (~codec.enc.ok /\ codec.enc.error = "InvalidSize")
    /\ \A t \in Tasks :
        (op[t].svc = "frame" /\ pc[t] = "ret" /\ ~codec.enc.ok)
            => (result[t] = RespError(WrongMessage) /\ wire[t] = << >>)

\* C21: every Single frame that UdsSingleFrame::new or from_vec returns has
\* size = len(payload) + 1 without a DID and len(payload) + 3 with one.
SingleSizeInvariant ==
    LET sized(f) ==
            f.size = Len(f.payload) + (IF f.did # NoDid THEN 3 ELSE 1)
    IN /\ (codec.stage = "frame" /\ codec.from = "new"
                /\ codec.frame.variant = "Single")
            => sized(codec.frame)
       /\ (codec.stage = "decoded" /\ codec.res.ok
                /\ codec.res.frame.variant = "Single")
            => sized(codec.res.frame)

-----------------------------------------------------------------------------
(* The socket mutex, the slot mutex, get(), cancellation.                  *)

\* C22: the transmit half and the receive half are never in a driver call
\* on the socket at the same time; the socket mutex is held only during a
\* driver call (by the receive half during one read_frame_timeout,
\* is_receiving or recv_frame, by a task during one transmit) and is free
\* whenever the receive task is outside such a call; a task that wants to
\* transmit while the mutex is held waits for a driver call that can
\* return, so the two never deadlock on the socket.
SocketMutualExclusion ==
    /\ Cardinality(sock.calls) <= 1
    /\ sock.lock # NoTask => sock.calls = {sock.lock}
    /\ sock.lock = RxTask <=> sock.rx \in {"driver", "recv"}
    /\ \A t \in Tasks :
        /\ sock.lock = t
                => /\ pc[t] \in {"send", "wait", "ret"}
                   /\ pc[t] = "wait" => (Len(wire[t]) = 1 /\ elapsed[t] = FALSE)
                   /\ pc[t] = "ret" => IsPanic(result[t])
        /\ (pc[t] = "send" /\ sock.lock # t)
                => \/ ENABLED TxAcquire(t)
                   \/ sock.lock = RxTask /\ ENABLED RxReturn

\* a task waits to transmit while the receive half is in its poll
SocketMutualExclusionWitness ==
    \E t \in Tasks :
        /\ pc[t] = "send"
        /\ sock.lock = RxTask
        /\ sock.rx = "driver"
        /\ nupd >= 1
        /\ ~ENABLED TxAcquire(t)

\* C23: the slot's mutex is held only while the cell is read or replaced:
\* at most one task is inside it, its holder is never suspended (in select!,
\* in notified(), in lock()) nor gone, a task that waits for the mutex waits
\* only for a holder whose next step is enabled, and an update is never
\* kept from the mutex by a consumer that is suspended.
SlotMutexDiscipline ==
    /\ Cardinality(slot.calls) <= 1
    /\ slot.lock # NoTask => slot.calls = {slot.lock}
    /\ \A t \in Tasks :
        /\ t \in slot.calls => pc[t] \in {"read", "wait", "back"}
        /\ (pc[t] = "wait" /\ t \in slot.calls) => stash[t] = current
        /\ (pc[t] = "read" /\ t \notin slot.calls)
                => \/ ENABLED ReadLock(t)
                   \/ RxTask \in slot.calls
                        /\ (ENABLED UpdateStore \/ ENABLED GuardDrop(RxTask))
                   \/ \E h \in slot.calls \cap Tasks :
                        ENABLED GuardDrop(h) \/ ENABLED ReadCell(h)
    /\ (rxpc = "poll" /\ nupd < MaxRx /\ RxTask \notin slot.calls)
            => \/ ENABLED UpdateLock
               \/ \E h \in slot.calls \cap Tasks :
                    /\ pc[h] \notin {"select", "gwait", "idle", "dropped"}
                    /\ ENABLED GuardDrop(h) \/ ENABLED ReadCell(h)

\* an update waits for the mutex while a consumer reads the cell, and
\* another consumer is suspended in select!
SlotMutexDisciplineWitness ==
    /\ rxpc = "poll"
    /\ nupd >= 1
    /\ nupd < MaxRx
    /\ ~ENABLED UpdateLock
    /\ \E t, u \in Tasks :
        /\ slot.lock = t
        /\ pc[t] = "read"
        /\ pc[u] = "select"

\* C24: get() returns only after an update has occurred, and what it returns
\* is Ok(value of the cell); it never panics, also when an update or another
\* consumer is inside the slot at that moment.
GetContract ==
    \A t \in Tasks :
        op[t].svc = "get" =>
            /\ pc[t] \in {"gtry", "ret"} => nupd >= 1
            /\ pc[t] = "ret" => result[t].tag = "OkResponse"

\* C25: after a task has been dropped inside wait_for_response the slot is
\* usable (the dropped task is neither registered with the Notify nor keeps
\* a notification or the mutex), and the next wait_for_response returns
\* Error(Timeout) when no update has happened since the drop.
CancellationSafety ==
    \A t \in Tasks :
        /\ pc[t] = "dropped"
                => /\ t \notin notified
                   /\ t \notin slot.calls
                   /\ \A i \in 1..Len(waiters) : waiters[i] # t
        /\ (slot.next = t /\ pc[t] = "back" /\ nupd = slot.dropUpd)
                => wresp[t] = RespError(Timeout)

-----------------------------------------------------------------------------
(* The receive machine of the periodic reads, and TransferData.            *)

\* C26: once the receive machine has obtained a First Frame and is in its
\* loop, the frame it transmitted after the request is a Flow Control frame
\* with flag 0, block size 0 and separation time 0x7F: [0x30, 0x00, 0x7F],
\* and the machine transmits nothing but such frames.
FlowControlEmission ==
    \A t \in Tasks :
        (phase[t] = "loop" /\ pc[t] # "ret") =>
            /\ Len(wire[t]) >= 2
            /\ \A i \in 2..Len(wire[t]) : wire[t][i] = << 48, 0, 127 >>

\* C27: when the answer to the start request of a periodic read is a frame
\* other than a First Frame, the call returns Err(WrongMessage); it has
\* transmitted nothing but the request (no Flow Control frame) and has not
\* entered the receive loop (no further response is taken from the slot).
WrongFirstResponse ==
    \A t \in Tasks :
        (/\ op[t].svc = "rt_start"
         /\ cmdret[t].tag = "Ok"
         /\ cmdret[t].frame.variant # "First")
            => /\ pc[t] = "ret"
               /\ result[t] = RespError(WrongMessage)
               /\ Len(wire[t]) = 1
               /\ phase[t] = "req"
               /\ stream[t] = NoStream
               /\ wresp[t] = RespOk(cmdret[t].frame)

\* a periodic read answered with a Flow Control frame has returned
WrongFirstResponseWitness ==
    \E t \in Tasks :
        /\ op[t].svc = "rt_start"
        /\ cmdret[t].tag = "Ok"
        /\ cmdret[t].frame.variant = "FlowControl"
        /\ pc[t] = "ret"

\* C28: a First Frame taken inside the receive loop starts a new stream: a
\* Flow Control frame is sent again, remain is the frame's size minus the
\* length of its payload, pre_idx is 0, and the loop waits for the next
\* frame.
StreamRestart ==
    \A t \in Tasks :
        (/\ phase[t] = "loop"
         /\ wresp[t].tag = "Ok"
         /\ wresp[t].frame.variant = "First"
         /\ pc[t] \notin {"back", "fc"})
            => /\ pc[t] \in {"wait", "select", "read"}
               /\ remain[t] = wresp[t].frame.size - Len(wresp[t].frame.payload)
               /\ pre_idx[t] = 0
               /\ stream[t].got = 0
               /\ Len(wire[t]) >= 2
               /\ wire[t][Len(wire[t])] = FlowControlBytes

\* C29: inside the receive loop a Single, Flow Control or negative response
\* frame changes neither remain nor pre_idx and transmits nothing, and the
\* loop is left only on a Response::Error, never on an Ok frame.
LoopExit ==
    /\ [](\A t \in Tasks :
            (phase[t] = "loop" /\ pc[t] = "ret") => wresp[t].tag = "Error")
    /\ [][\A t \in Tasks :
            (/\ phase[t] = "loop"
             /\ pc[t] = "back"
             /\ pc'[t] # "back"
             /\ wresp[t].tag = "Ok"
             /\ wresp[t].frame.variant
                    \in {"Single", "FlowControl", "NegativeResp"})
                => /\ pc'[t] = "wait"
                   /\ remain'[t] = remain[t]
                   /\ pre_idx'[t] = pre_idx[t]
                   /\ wire'[t] = wire[t]]_vars

\* C30: once its request is on the wire, get_ecu_log returns an error to its
\* caller, and NotImplemented("TransferData") when the ECU has answered; it
\* does not panic.
TransferDataUnimplemented ==
    \A t \in Tasks :
        (op[t].svc = "log" /\ pc[t] = "ret" /\ Len(wire[t]) = 1)
            => /\ IsErr(result[t])
               /\ cmdret[t].tag = "Ok"
                    => result[t] = RespError([kind |-> "NotImplemented",
                                              what |-> "TransferData"])

-----------------------------------------------------------------------------
(* Freshness, delivery and termination.                                    *)

\* C31: a value that a request's wait_for_response returns on a wake was
\* stored after the request was transmitted: at least one update has
\* happened since the wait began.
NoStaleResponse ==
    \A t \in Tasks :
        (pc[t] = "back" /\ phase[t] = "req" /\ via[t] = "wake")
            => nupd > waitStart[t]

\* C32: a receive() of the receive loop that returns on a wake returns the
\* value of an update that the call before it has not returned: an update
\* has been stored since that call read the cell, either before this call
\* began (quietUpd) or during it.
DeliveredOnce ==
    \A t \in Tasks :
        (pc[t] = "back" /\ phase[t] = "loop" /\ via[t] = "wake")
            => (nupd > waitStart[t] \/ quietUpd[t] > 0)

\* C33: the periodic read during which the ECU sent a First Frame and the
\* in-order Consecutive Frames that complete it returns Ok(()), whenever it
\* returns without a panic.
LosslessReception ==
    \A t \in EventTasks :
        (/\ pc[t] = "ret"
         /\ nupd = MaxRx
         /\ \A u \in EventTasks \ {t} : pc[u] = "idle"
         /\ ~IsPanic(result[t]))
            => result[t] = OkUnit

\* C34: under fair scheduling a periodic read that has been started returns
\* (or ends in a panic), whatever the ECU sends and however long it goes on
\* sending.
PeriodicReadTerminates ==
    \A t \in EventTasks : (pc[t] = "send") ~> (pc[t] = "ret")

\* C35: wait_for_response always returns, and within one timeout period: a
\* call that has read the cell is never sent back to the top of the loop,
\* where select! would start a new sleep, so the sleep started when the
\* call began is the only one; and under fair scheduling every call that
\* has begun to wait returns, also while the producer keeps storing 0x78
\* negative responses.
WaitReturnsInOneTimeout ==
    /\ [][\A t \in Tasks : pc[t] = "read" => pc'[t] # "wait"]_vars
    /\ \A t \in EventTasks : (pc[t] = "wait") ~> (pc[t] = "back")

\* a wait of the receive loop returned the 0x78 value on a wake, after the
\* producer had stored a 0x78 response during an earlier wait of the call
WaitReturnsInOneTimeoutWitness ==
    \E t \in EventTasks :
        /\ pc[t] = "back"
        /\ phase[t] = "loop"
        /\ via[t] = "wake"
        /\ wresp[t] = DecodeResponse(PendingBytes)
        /\ lastBytes = PendingBytes
        /\ stash[t] = NoResp

\* C36: the remaining-byte counter of real_time_data_process never
\* underflows: it stays in 0..4095 and no subtraction panics, so a First
\* Frame shorter than its payload or a stream longer than announced ends
\* with an error value.
RemainNeverUnderflows ==
    \A t \in Tasks :
        /\ remain[t] \in 0..4095
        /\ result[t] # Panic("overflow")

\* C37: the request task survives failed requests: when the service of an
\* event has returned an error, the caller's handling of that result
\* leaves the request task running (later events are still dispatched)
\* and the client free.
RequestTaskSurvives ==
    [][\A t \in EventTasks :
         (pc[t] = "ret" /\ IsErr(result[t]) /\ pc'[t] # "ret")
            => (~loopDead' /\ clientLock' = NoTask)]_vars

\* C38: the value the slot is constructed with is never observable: no
\* wait_for_response returns Error(NotSupported) and no get() returns it;
\* while no update has been stored, a wait_for_response that has returned
\* has returned Error(Timeout) and no get() has got past notified().
InitialValueHidden ==
    \A t \in EventTasks :
        /\ pc[t] = "back" => wresp[t] # RespError(NotSupported)
        /\ (pc[t] = "ret" /\ op[t].svc = "get" /\ ~IsPanic(result[t]))
              => result[t].value # RespError(NotSupported)
        /\ nupd = 0 =>
              /\ pc[t] = "back" => wresp[t] = RespError(Timeout)
              /\ op[t].svc = "get" => pc[t] = "gwait"

\* before the first update one call of wait_for_response has returned
\* through its timeout and a get() is suspended in notified()
InitialValueHiddenWitness ==
    /\ nupd = 0
    /\ current = RespError(NotSupported)
    /\ \E t, u \in EventTasks :
        /\ pc[t] = "back"
        /\ via[t] = "timeout"
        /\ op[u].svc = "get"
        /\ pc[u] = "gwait"

-----------------------------------------------------------------------------
(* The UI command mapping.                                                 *)

\* C39: UiEventTx::try_from accepts exactly the supported codes 0x01..0x04
\* and 0x40..0x47 and maps each to the command whose sub-id on the wire is
\* the code: the request transmitted for the event carries the code as its
\* sub-function byte (so distinct codes give distinct commands), and every
\* other integer is rejected.
UiMappingFaithful ==
    codec.stage = "event" =>
        /\ codec.res.ok <=> codec.code \in (1..4) \cup (64..71)
        /\ \A t \in EventTasks :
              wire[t] # << >> => wire[t][1][3] = codec.code

====
